---- MODULE Spec2Model ----
(***************************************************************************)
(* A model of skypier-vecDB: the graph index (skypier-index/src/hnsw.rs),  *)
(* the persistent store (skypier-storage/src/redb_storage.rs) and the      *)
(* orchestrator that pairs them (skypier-core/src/database.rs).            *)
(*                                                                         *)
(* Conventions.                                                            *)
(*  - Option<T> is a sequence of length 0 (None) or 1 (Some(x)).           *)
(*  - Result<T> is a record [ok, val]: val is <<x>> for Ok(x), <<>> for    *)
(*    Err.                                                                 *)
(*  - An f32 is a record [kind, val]: kind "fin" carries an integer, "nan" *)
(*    and "inf" are the non-finite values.  The embeddings handed to the   *)
(*    index are finite with integer norms, so every cosine similarity is  *)
(*    an exact multiple of 1/ScoreUnit and is carried as that integer.     *)
(***************************************************************************)
EXTENDS Integers, Sequences, FiniteSets, TLC

\* ------------------------------------------------------------------ bounds
\* The fan-out cap and the two frontier widths of the graph index.  The code
\* sets 16, 50 and 200 (hnsw.rs:56, :191, :57); the model scales them down,
\* keeping their order, so that a full neighbor list is reachable.
max_connections == 1
ef_search_min == 2
ef_construction == 3
\* Longest batch handed to insert_vectors, largest k handed to search.
MaxBatch == 2
MaxK == 3

\* ------------------------------------------------------------ option, result
NoneV == <<>>
Some(x) == <<x>>
IsSome(o) == Len(o) = 1
Unwrap(o) == o[1]

Ok(x) == [ok |-> TRUE, val |-> <<x>>]
Err == [ok |-> FALSE, val |-> <<>>]

Min2(a, b) == IF a <= b THEN a ELSE b
Max2(a, b) == IF a >= b THEN a ELSE b
Take(s, n) == SubSeq(s, 1, Min2(n, Len(s)))
Range(s) == {s[i] : i \in 1..Len(s)}

\* -------------------------------------------------------------------- f32
Fin(n) == [kind |-> "fin", val |-> n]
NaN == [kind |-> "nan", val |-> 0]
Inf == [kind |-> "inf", val |-> 0]
FVec(ints) == [i \in 1..Len(ints) |-> Fin(ints[i])]

\* The representation of the score 1.0: norms of the model's embeddings are
\* 0, 1 or 5, so every cosine similarity is a multiple of 1/25.
ScoreUnit == 5 * 5

RECURSIVE SumTo(_, _)
SumTo(f, n) == IF n = 0 THEN 0 ELSE f[n] + SumTo(f, n - 1)

\* sqrt of a perfect square (the model's squared norms are 0, 1 and 25).
Sqrt(n) == CHOOSE r \in 0..n : r * r = n

\* Vec<f32>::iter().zip(): pairs up to the shorter length.
ZipDot(a, b) ==
    LET n == Min2(Len(a), Len(b))
    IN SumTo([i \in 1..n |-> a[i].val * b[i].val], n)

Norm(a) == Sqrt(SumTo([i \in 1..Len(a) |-> a[i].val * a[i].val], Len(a)))

\* hnsw.rs cosine_similarity: no length check, 0.0 when either norm is zero.
cosine_similarity(a, b) ==
    IF Norm(a) = 0 \/ Norm(b) = 0
    THEN 0
    ELSE (ZipDot(a, b) * ScoreUnit) \div (Norm(a) * Norm(b))

\* ------------------------------------------------------------ graph index
\* HnswIndex: nodes is a function id -> Node, Node = [vector, connections].
Node(v, conns) == [vector |-> v, connections |-> conns]
Connection(id, d) == [id |-> id, distance |-> d]

HnswNew(dimensions) == [nodes |-> <<>>, entry_point |-> NoneV]

NodeIds(idx) == DOMAIN idx.nodes

\* impl Ord for Connection: reversed on distance, so the greatest element of
\* a BinaryHeap<Connection> is one with the smallest distance field.
ConnectionGreater(a, b) == a.distance < b.distance

\* BinaryHeap::peek / pop: a greatest element; among equal ones the heap's
\* layout decides, which the model leaves open.
HeapTops(h) == {c \in h : \A d \in h : ~ConnectionGreater(d, c)}

\* Faulty variant of IntoSortedVec: descending in Ord, the farthest first.
RECURSIVE IntoSortedVecFarthestFirst(_)
IntoSortedVecFarthestFirst(h) ==
    IF h = {} THEN {<<>>}
    ELSE LET greatest == {c \in h : \A d \in h : ~ConnectionGreater(d, c)}
         IN UNION {{<<c>> \o s : s \in IntoSortedVecFarthestFirst(h \ {c})}
                   : c \in greatest}

\* BinaryHeap::into_sorted_vec: ascending in Ord, any order among equals.
RECURSIVE IntoSortedVec(_)
IntoSortedVec(h) ==
    IF h = {} THEN {<<>>}
    ELSE LET least == {c \in h : \A d \in h : ~ConnectionGreater(c, d)}
         IN UNION {{<<c>> \o s : s \in IntoSortedVec(h \ {c})} : c \in least}

\* The for loop over one node's connections (hnsw.rs:93-118), from position j
\* on.  st = [candidates, w, visited]; the result is the set of states the
\* loop can end in (eviction among equal distances is open).
RECURSIVE VisitNeighbors(_, _, _, _, _, _)
VisitNeighbors(nodes, query, num_closest, conns, j, st) ==
    IF j > Len(conns) THEN {st}
    ELSE
      LET nid == conns[j] IN
      IF nid \in st.visited
      THEN VisitNeighbors(nodes, query, num_closest, conns, j + 1, st)
      ELSE
        LET st1 == [st EXCEPT !.visited = @ \cup {nid}] IN
        IF nid \notin DOMAIN nodes
        THEN VisitNeighbors(nodes, query, num_closest, conns, j + 1, st1)
        ELSE
          LET distance == cosine_similarity(query, nodes[nid].vector)
              conn == Connection(nid, distance)
              pushed == [st1 EXCEPT !.candidates = @ \cup {conn},
                                    !.w = @ \cup {conn}]
          IN
          IF Cardinality(st1.w) < num_closest
          THEN VisitNeighbors(nodes, query, num_closest, conns, j + 1, pushed)
          ELSE
            IF \E f \in HeapTops(st1.w) : distance < f.distance
            THEN IF Cardinality(pushed.w) > num_closest
                 THEN UNION {VisitNeighbors(nodes, query, num_closest, conns, j + 1,
                                            [pushed EXCEPT !.w = @ \ {e}])
                             : e \in HeapTops(pushed.w)}
                 ELSE VisitNeighbors(nodes, query, num_closest, conns, j + 1, pushed)
            ELSE VisitNeighbors(nodes, query, num_closest, conns, j + 1, st1)

\* One iteration of the while loop as the traversal's record keeps it: the
\* candidate popped, the candidates it was popped from, the frontier at that
\* moment and whether the loop broke there.
LoopStep(c, st, stop) ==
    [c |-> c, candidates |-> st.candidates, w |-> st.w, stop |-> stop]

\* The while loop of search_layer (hnsw.rs:85-120): the states it can end in.
\* st.steps records the iterations taken.
RECURSIVE SearchLoop(_, _, _, _)
SearchLoop(nodes, query, num_closest, st) ==
    IF st.candidates = {} THEN {st}
    ELSE
      UNION {
        IF \E f \in HeapTops(st.w) : c.distance > f.distance
        THEN {[st EXCEPT !.steps = Append(@, LoopStep(c, st, TRUE))]}
        ELSE LET popped == [st EXCEPT !.candidates = @ \ {c},
                                      !.steps = Append(@, LoopStep(c, st, FALSE))]
                 after == IF c.id \in DOMAIN nodes
                          THEN VisitNeighbors(nodes, query, num_closest,
                                              nodes[c.id].connections, 1, popped)
                          ELSE {popped}
             IN UNION {SearchLoop(nodes, query, num_closest, s) : s \in after}
        : c \in HeapTops(st.candidates)}

\* The heaps and the visited set after the entry points are pushed
\* (hnsw.rs:67-83).
SearchLayerInit(idx, query, entry_points) ==
    LET eps == {Connection(ep, cosine_similarity(query, idx.nodes[ep].vector))
                : ep \in Range(entry_points) \cap NodeIds(idx)}
    IN [candidates |-> eps, w |-> eps,
        visited |-> Range(entry_points) \cap NodeIds(idx), steps |-> <<>>]

\* The states search_layer can be in when its loop ends.
SearchLayerFinal(idx, query, entry_points, num_closest) ==
    SearchLoop(idx.nodes, query, num_closest,
               SearchLayerInit(idx, query, entry_points))

\* HnswIndex::search_layer: the possible results, each a Vec<Connection>.
search_layer(idx, query, entry_points, num_closest) ==
    UNION {IntoSortedVec(st.w)
           : st \in SearchLayerFinal(idx, query, entry_points, num_closest)}

\* Faulty variant of LinkNeighbors: the neighbor's list is never truncated.
RECURSIVE LinkNeighborsNoTruncate(_, _, _, _)
LinkNeighborsNoTruncate(nodes, selected, j, id) ==
    IF j > Len(selected) THEN nodes
    ELSE LET nb == selected[j] IN
         IF nb \in DOMAIN nodes
         THEN LinkNeighborsNoTruncate(
                [nodes EXCEPT ![nb].connections = Append(@, id)], selected, j + 1, id)
         ELSE LinkNeighborsNoTruncate(nodes, selected, j + 1, id)

\* The loop adding the new id to each selected neighbor (hnsw.rs:155-163).
RECURSIVE LinkNeighbors(_, _, _, _)
LinkNeighbors(nodes, selected, j, id) ==
    IF j > Len(selected) THEN nodes
    ELSE LET nb == selected[j] IN
         IF nb \in DOMAIN nodes
         THEN LinkNeighbors(
                [nodes EXCEPT ![nb].connections = Take(Append(@, id), max_connections)],
                selected, j + 1, id)
         ELSE LinkNeighbors(nodes, selected, j + 1, id)

\* HashMap::insert: adds the key or replaces its value.
MapInsert(m, key, v) == [x \in DOMAIN m \cup {key} |-> IF x = key THEN v ELSE m[x]]
MapRemove(m, key) == [x \in DOMAIN m \ {key} |-> m[x]]

\* Faulty variant of HnswAdd: a node added to a non-empty graph is linked from its
\* neighbors but never put into the node table.
HnswAddForgetsNode(idx, id, vector) ==
    IF ~IsSome(idx.entry_point)
    THEN {[nodes |-> MapInsert(idx.nodes, id, Node(vector, <<>>)),
           entry_point |-> Some(id)]}
    ELSE
      {LET selected == Take([i \in 1..Len(cands) |-> cands[i].id], max_connections)
       IN [nodes |-> LinkNeighbors(idx.nodes, selected, 1, id),
           entry_point |-> idx.entry_point]
       : cands \in search_layer(idx, vector, <<Unwrap(idx.entry_point)>>, ef_construction)}

\* HnswIndex::add_vector: the possible indexes after the call.
HnswAdd(idx, id, vector) ==
    IF ~IsSome(idx.entry_point)
    THEN {[nodes |-> MapInsert(idx.nodes, id, Node(vector, <<>>)),
           entry_point |-> Some(id)]}
    ELSE
      {LET selected == Take([i \in 1..Len(cands) |-> cands[i].id], max_connections)
           linked == LinkNeighbors(idx.nodes, selected, 1, id)
       IN [nodes |-> MapInsert(linked, id, Node(vector, selected)),
           entry_point |-> idx.entry_point]
       : cands \in search_layer(idx, vector, <<Unwrap(idx.entry_point)>>, ef_construction)}

\* Vec::retain(|c| c != id)
RECURSIVE Retain(_, _)
Retain(s, id) ==
    IF s = <<>> THEN <<>>
    ELSE IF Head(s) = id THEN Retain(Tail(s), id)
         ELSE <<Head(s)>> \o Retain(Tail(s), id)

\* Faulty variant of HnswRemove: reports the removal and leaves the node in place.
HnswRemoveKeepsNode(idx, id) == {[index |-> idx, removed |-> id \in NodeIds(idx)]}

\* Faulty variant of HnswRemove: takes the node out and leaves the entry point
\* as it was.
HnswRemoveKeepsEntry(idx, id) ==
    {[index |-> [nodes |-> MapRemove(idx.nodes, id), entry_point |-> idx.entry_point],
      removed |-> id \in NodeIds(idx)]}

\* HnswIndex::remove_vector: the possible [index, removed] pairs; the new
\* entry point is HashMap::keys().next(), any remaining key.
HnswRemove(idx, id) ==
    IF id \in NodeIds(idx)
    THEN
      LET node == idx.nodes[id]
          rest == MapRemove(idx.nodes, id)
          stripped == [x \in DOMAIN rest |->
                         IF x \in Range(node.connections)
                         THEN [rest[x] EXCEPT !.connections = Retain(@, id)]
                         ELSE rest[x]]
          eps == IF idx.entry_point = Some(id)
                 THEN IF DOMAIN stripped = {} THEN {NoneV}
                      ELSE {Some(x) : x \in DOMAIN stripped}
                 ELSE {idx.entry_point}
      IN {[index |-> [nodes |-> stripped, entry_point |-> ep], removed |-> TRUE]
          : ep \in eps}
    ELSE {[index |-> idx, removed |-> FALSE]}

\* Faulty variant of HnswSearch: an empty graph answers with a stale candidate.
HnswSearchStaleCandidate(idx, query, k) ==
    IF IsSome(idx.entry_point)
    THEN {Take([i \in 1..Len(conns) |-> [id |-> conns[i].id, score |-> conns[i].distance]], k)
          : conns \in search_layer(idx, query, <<Unwrap(idx.entry_point)>>,
                                   Max2(k, ef_search_min))}
    ELSE {<<[id |-> "a", score |-> ScoreUnit]>>}

\* HnswIndex::search: the possible results, each a Vec<SearchResult>.
HnswSearch(idx, query, k) ==
    IF IsSome(idx.entry_point)
    THEN {Take([i \in 1..Len(conns) |-> [id |-> conns[i].id, score |-> conns[i].distance]], k)
          : conns \in search_layer(idx, query, <<Unwrap(idx.entry_point)>>,
                                   Max2(k, ef_search_min))}
    ELSE {<<>>}

\* HnswIndex::size
HnswSize(idx) == Cardinality(DOMAIN idx.nodes)

\* HnswIndex::clear
HnswClear(idx) == [nodes |-> <<>>, entry_point |-> NoneV]

\* -------------------------------------------------------------- flat index
\* FlatIndex: vectors is a function id -> Vec<f32>.
FlatNew == [vectors |-> <<>>]

IsFinite(x) == x.kind = "fin"
AllFinite(a) == \A i \in 1..Len(a) : IsFinite(a[i])

\* flat.rs cosine_similarity on f32 values, the result an f32.  With a
\* non-finite component: the dot product runs over the zipped prefix and is
\* finite only when every pair in it is; the norm of such a vector is inf, or
\* NaN when a component is NaN; a norm of zero is tested first and gives 0.0;
\* finite / inf is 0.0 and every other quotient is NaN.
FlatCosineSimilarity(a, b) ==
    IF AllFinite(a) /\ AllFinite(b)
    THEN Fin(cosine_similarity(a, b))
    ELSE
      LET n == Min2(Len(a), Len(b))
          zero_a == AllFinite(a) /\ Norm(a) = 0
          zero_b == AllFinite(b) /\ Norm(b) = 0
          dot_finite == \A i \in 1..n : IsFinite(a[i]) /\ IsFinite(b[i])
          has_nan == \/ \E i \in 1..Len(a) : a[i].kind = "nan"
                     \/ \E i \in 1..Len(b) : b[i].kind = "nan"
      IN IF zero_a \/ zero_b THEN Fin(0)
         ELSE IF dot_finite /\ ~has_nan THEN Fin(0)
         ELSE NaN

\* The comparator handed to sort_by (flat.rs:54):
\* b.score.partial_cmp(&a.score).unwrap_or(Equal) is Less exactly when both
\* scores are numbers and b's is the smaller.
SortIsLess(a, b) ==
    IsFinite(a.score) /\ IsFinite(b.score) /\ b.score.val < a.score.val

\* One insertion of the stable sort of a short slice: x moves left past
\* every element it is less than, and stops at the first it is not.
RECURSIVE InsertTail(_, _)
InsertTail(sorted, x) ==
    IF sorted = <<>> THEN <<x>>
    ELSE IF SortIsLess(x, sorted[Len(sorted)])
         THEN Append(InsertTail(SubSeq(sorted, 1, Len(sorted) - 1), x),
                     sorted[Len(sorted)])
         ELSE Append(sorted, x)

\* slice::sort_by on a slice of at most 20 elements: insertion sort.
RECURSIVE SortBy(_, _)
SortBy(v, n) == IF n = 0 THEN <<>> ELSE InsertTail(SortBy(v, n - 1), v[n])

\* HashMap::iter: the entries in any order.
RECURSIVE IterOrders(_)
IterOrders(keys) ==
    IF keys = {} THEN {<<>>}
    ELSE UNION {{<<x>> \o s : s \in IterOrders(keys \ {x})} : x \in keys}

\* FlatIndex::add_vector, remove_vector, size
FlatAdd(f, id, vector) == [vectors |-> MapInsert(f.vectors, id, vector)]
FlatRemove(f, id) ==
    [index |-> [vectors |-> MapRemove(f.vectors, id)], removed |-> id \in DOMAIN f.vectors]
FlatSize(f) == Cardinality(DOMAIN f.vectors)
FlatClear(f) == [vectors |-> <<>>]

\* FlatIndex::search: score every entry, sort, truncate; the possible results.
FlatSearch(f, query, k) ==
    {LET scored == [i \in 1..Len(order) |->
                      [id |-> order[i],
                       score |-> FlatCosineSimilarity(query, f.vectors[order[i]])]]
     IN Take(SortBy(scored, Len(scored)), k)
     : order \in IterOrders(DOMAIN f.vectors)}

\* ------------------------------------------------------- persistent store
\* Vector (skypier-storage/src/lib.rs): the persisted record.
Vector(id, data, metadata, collection, created_at) ==
    [id |-> id, data |-> data, metadata |-> metadata,
     collection |-> collection, created_at |-> created_at]

\* serde_json writes a finite f32 as a number and a NaN or infinite one as
\* null; it reads an f32 from a number only.
JsonF32(x) == IF x.kind = "fin" THEN [t |-> "num", n |-> x.val]
              ELSE [t |-> "null", n |-> 0]
F32FromJson(j) == IF j.t = "num" THEN Ok(Fin(j.n)) ELSE Err

\* Option<T> is written as null or as the value, and read back likewise.
JsonOption(o) == IF IsSome(o) THEN [t |-> "some", v |-> o] ELSE [t |-> "null", v |-> <<>>]
OptionFromJson(j) == IF j.t = "null" THEN NoneV ELSE j.v

\* serde_json::to_vec(&vector): the bytes kept under the record's id.
Serialize(v) ==
    [id |-> v.id,
     data |-> [i \in 1..Len(v.data) |-> JsonF32(v.data[i])],
     metadata |-> JsonOption(v.metadata),
     collection |-> JsonOption(v.collection),
     created_at |-> [t |-> "num", n |-> v.created_at]]

\* serde_json::from_slice::<Vector>: fails when a field cannot be read.
Deserialize(b) ==
    IF \E i \in 1..Len(b.data) : ~F32FromJson(b.data[i]).ok
    THEN Err
    ELSE Ok(Vector(b.id,
                   [i \in 1..Len(b.data) |-> Unwrap(F32FromJson(b.data[i]).val)],
                   OptionFromJson(b.metadata),
                   OptionFromJson(b.collection),
                   b.created_at.n))

\* Faulty variant of StoreVector: the transaction reports success and writes
\* nothing.
StoreVectorLost(table, v) == table

\* RedbStorage::store_vector: one write transaction, table.insert (upsert).
StoreVector(table, v) == MapInsert(table, v.id, Serialize(v))

\* Faulty variant of GetVector: an absent id is an error.
GetVectorAbsentFails(table, id) ==
    IF id \in DOMAIN table
    THEN LET d == Deserialize(table[id])
         IN IF d.ok THEN Ok(Some(Unwrap(d.val))) ELSE Err
    ELSE Err

\* RedbStorage::get_vector: Result<Option<Vector>>.
GetVector(table, id) ==
    IF id \in DOMAIN table
    THEN LET d == Deserialize(table[id])
         IN IF d.ok THEN Ok(Some(Unwrap(d.val))) ELSE Err
    ELSE Ok(NoneV)

\* Faulty variant of DeleteVector: the row is looked up but not removed.
DeleteVectorKeepsRow(table, id) == [table |-> table, existed |-> id \in DOMAIN table]

\* RedbStorage::delete_vector: one write transaction, table.remove.
DeleteVector(table, id) ==
    [table |-> MapRemove(table, id), existed |-> id \in DOMAIN table]

\* RedbStorage::count_vectors: table.len().
CountVectors(table) == Cardinality(DOMAIN table)

\* The table's keys in the order its iterator yields them (byte order).
KeyOrder == <<"a", "b", "c">>
KeyRank(id) == CHOOSE i \in 1..Len(KeyOrder) : KeyOrder[i] = id

\* RedbStorage::get_first_vector: the record under the least key, read back.
GetFirstVector(table) ==
    IF DOMAIN table = {} THEN Ok(NoneV)
    ELSE LET first == CHOOSE id \in DOMAIN table :
                        \A other \in DOMAIN table : KeyRank(id) <= KeyRank(other)
             d == Deserialize(table[first])
         IN IF d.ok THEN Ok(Some(Unwrap(d.val))) ELSE Err

\* -------------------------------------------------- similarity functions
\* f32 values beyond the exact integers: Tiny(n) is n * 2^-80 and Big(n) is
\* n * 2^80, n a small non-negative integer.  Both are normal f32 values; a
\* product of two tiny values is below the least subnormal (2^-149) and
\* rounds to 0.0, a product of two big values is above f32::MAX (< 2^128) and
\* is inf.  Inf is +inf; the values of the model are non-negative.
Tiny(n) == [kind |-> "tiny", val |-> n]
Big(n) == [kind |-> "big", val |-> n]

IsNaN(x) == x.kind = "nan"
IsInf(x) == x.kind = "inf"
IsZeroF(x) == x.kind \in {"fin", "tiny", "big"} /\ x.val = 0

\* The binary exponent of a value, in steps of 80.
Level(x) == CASE x.kind = "tiny" -> 0 - 1 [] x.kind = "fin" -> 0 [] x.kind = "big" -> 1

\* The f32 nearest to n * 2^(80 * level).
Scaled(level, n) ==
    IF n = 0 \/ level < 0 - 1 THEN Fin(0)
    ELSE IF level = 0 - 1 THEN Tiny(n)
    ELSE IF level = 0 THEN Fin(n)
    ELSE IF level = 1 THEN Big(n)
    ELSE Inf

\* x * y
FMul(x, y) ==
    IF IsNaN(x) \/ IsNaN(y) THEN NaN
    ELSE IF IsInf(x) \/ IsInf(y)
         THEN IF IsZeroF(x) \/ IsZeroF(y) THEN NaN ELSE Inf
         ELSE Scaled(Level(x) + Level(y), x.val * y.val)

\* x + y: a term 2^80 times smaller than the other is rounded away.
FAdd(x, y) ==
    IF IsNaN(x) \/ IsNaN(y) THEN NaN
    ELSE IF IsInf(x) \/ IsInf(y) THEN Inf
    ELSE IF IsZeroF(x) THEN y
    ELSE IF IsZeroF(y) THEN x
    ELSE IF Level(x) = Level(y) THEN Scaled(Level(x), x.val + y.val)
    ELSE IF Level(x) > Level(y) THEN x ELSE y

\* (x - y).abs()
FAbsDiff(x, y) ==
    IF IsNaN(x) \/ IsNaN(y) THEN NaN
    ELSE IF IsInf(x) /\ IsInf(y) THEN NaN
    ELSE IF IsInf(x) \/ IsInf(y) THEN Inf
    ELSE IF IsZeroF(x) THEN y
    ELSE IF IsZeroF(y) THEN x
    ELSE IF Level(x) = Level(y)
         THEN Scaled(Level(x), IF x.val >= y.val THEN x.val - y.val ELSE y.val - x.val)
    ELSE IF Level(x) > Level(y) THEN x ELSE y

\* sqrt of a sum of squares: a perfect square, inf or NaN.
FSqrt(x) ==
    CASE IsNaN(x) -> NaN
      [] IsInf(x) -> Inf
      [] x.kind = "fin" -> Fin(Sqrt(x.val))

\* x / y, the quotient in units of 1/ScoreUnit.
FDiv(x, y) ==
    IF IsNaN(x) \/ IsNaN(y) THEN NaN
    ELSE IF IsInf(x) THEN (IF IsInf(y) THEN NaN ELSE Inf)
    ELSE IF IsInf(y) THEN Fin(0)
    ELSE IF IsZeroF(y) THEN (IF IsZeroF(x) THEN NaN ELSE Inf)
    ELSE Scaled(Level(x) - Level(y), (x.val * ScoreUnit) \div y.val)

\* Iterator::sum over the first n terms, from 0.0.
RECURSIVE FSum(_, _)
FSum(f, n) == IF n = 0 THEN Fin(0) ELSE FAdd(FSum(f, n - 1), f[n])

\* a.iter().zip(b.iter()).map(|(x, y)| x * y).sum()
ZipDotF(a, b) ==
    LET n == Min2(Len(a), Len(b)) IN FSum([i \in 1..n |-> FMul(a[i], b[i])], n)

\* a.iter().map(|x| x * x).sum::<f32>().sqrt()
NormF(a) == FSqrt(FSum([i \in 1..Len(a) |-> FMul(a[i], a[i])], Len(a)))

\* Faulty variant of dot_product: no length check, the longer vector's tail
\* is ignored.
dot_product_unchecked(a, b) == Ok(ZipDotF(a, b))

\* similarity::cosine_similarity, the value in units of 1/ScoreUnit.
similarity_cosine_similarity(a, b) ==
    IF Len(a) # Len(b) THEN Err
    ELSE LET dot == ZipDotF(a, b)
             norm_a == NormF(a)
             norm_b == NormF(b)
         IN IF IsZeroF(norm_a) \/ IsZeroF(norm_b) THEN Ok(Fin(0))
            ELSE Ok(FDiv(dot, FMul(norm_a, norm_b)))

\* similarity::euclidean_distance
euclidean_distance(a, b) ==
    IF Len(a) # Len(b) THEN Err
    ELSE Ok(FSqrt(FSum([i \in 1..Len(a) |->
                          FMul(FAbsDiff(a[i], b[i]), FAbsDiff(a[i], b[i]))], Len(a))))

\* similarity::dot_product
dot_product(a, b) ==
    IF Len(a) # Len(b) THEN Err ELSE Ok(ZipDotF(a, b))

\* similarity::manhattan_distance
manhattan_distance(a, b) ==
    IF Len(a) # Len(b) THEN Err
    ELSE Ok(FSum([i \in 1..Len(a) |-> FAbsDiff(a[i], b[i])], Len(a)))

\* enum DistanceMetric
DistanceMetric == {"Cosine", "Euclidean", "DotProduct"}

\* DistanceMetric::compute
compute(metric, a, b) ==
    IF Len(a) # Len(b) THEN Err
    ELSE CASE metric = "Cosine" -> similarity_cosine_similarity(a, b)
           [] metric = "Euclidean" -> euclidean_distance(a, b)
           [] metric = "DotProduct" -> dot_product(a, b)

\* ------------------------------------------------------------ orchestrator
VARIABLES
    storage,      \* the "vectors" table of the data file: id -> bytes
    index,        \* the HnswIndex behind the RwLock
    flat,         \* a FlatIndex, the other VectorIndex variant
    dimensions,   \* VectorDatabase.dimensions: Option<usize>
    lock,         \* the RwLock: [writer: Option<task>, readers: set of tasks]
    task,         \* per task: the call in flight, its locals and its result
    written,      \* history: id -> the Vector last handed to store_vector
    hist          \* history: removals, repeated ids, the first accepted length

vars == <<storage, index, flat, dimensions, lock, task, written, hist>>

Tasks == {"t1", "t2"}

\* pre is history: the ids in the store when insert_vectors took the lock.
IdleTask ==
    [pc |-> "idle", op |-> "none", vectors |-> <<>>, pos |-> 0, ids |-> <<>>,
     id |-> "", query |-> <<>>, k |-> 0, threshold |-> 0, collection |-> NoneV,
     candidates |-> <<>>, results |-> <<>>, ret |-> Err, pre |-> {}, total |-> 0]

\* A task that is free to make a call.
Free(t) == task[t].pc \in {"idle", "done"}
NewCall(op) == [IdleTask EXCEPT !.op = op]

\* The call of task t returns ret: its locals are dropped, its arguments and
\* the ids it pushed stay readable.
Return(t, ret) ==
    [task[t] EXCEPT !.pc = "done", !.ret = ret, !.vectors = <<>>, !.pos = 0,
                    !.candidates = <<>>, !.results = <<>>, !.pre = {}, !.total = 0]

Unlocked == [writer |-> NoneV, readers |-> {}]
\* Faulty variant of CanRead: a reader does not wait for the writer.
CanReadAlways == TRUE

\* Faulty variant of CanRead: read() is never granted.
CanReadNever == FALSE

\* tokio RwLock: write() is granted when nobody holds the lock, read() when
\* no writer holds it (database.rs:33, 129 and 69, 100).
CanWrite == lock.writer = NoneV /\ lock.readers = {}
CanRead == lock.writer = NoneV

\* The history of a fresh process: nothing removed, no id handed in twice,
\* no length accepted yet, no id added, and no id gone (removed and not put
\* back since).
NewHist ==
    [removed |-> FALSE, reinserted |-> FALSE, first_dim |-> NoneV,
     added |-> {}, gone |-> {}, repointed |-> FALSE]

\* VectorDatabase::new over an empty data directory.
Init ==
    /\ storage = <<>>
    /\ index = HnswNew(768)
    /\ flat = FlatNew
    /\ dimensions = NoneV
    /\ lock = Unlocked
    /\ task = [t \in Tasks |-> IdleTask]
    /\ written = <<>>
    /\ hist = NewHist

\* VectorDatabase::new over the data directory a previous process left: the
\* records stay, the index and the dimension start afresh (database.rs:19-29).
Reopen ==
    /\ \A t \in Tasks : Free(t)
    /\ storage # <<>>
    /\ index' = HnswNew(768)
    /\ dimensions' = NoneV
    /\ lock' = Unlocked
    /\ task' = [t \in Tasks |-> IdleTask]
    /\ hist' = NewHist
    /\ UNCHANGED <<storage, written, flat>>

\* insert_vectors is called; it waits for index.write().
InsertCall(t, vs) ==
    /\ Free(t)
    /\ task' = [task EXCEPT ![t] = [NewCall("insert") EXCEPT
                                      !.pc = "ins_lock", !.vectors = vs, !.pos = 1]]
    /\ UNCHANGED <<storage, index, dimensions, lock, written, hist, flat>>

\* index.write().await is granted (database.rs:33); an empty batch returns
\* at once, dropping the guard.
InsertAcquire(t) ==
    /\ task[t].pc = "ins_lock"
    /\ CanWrite
    /\ IF task[t].vectors = <<>>
       THEN /\ task' = [task EXCEPT ![t] = Return(t, Ok(<<>>))]
            /\ lock' = lock
       ELSE /\ task' = [task EXCEPT ![t].pc = "ins_store", ![t].pre = DOMAIN storage]
            /\ lock' = [lock EXCEPT !.writer = Some(t)]
    /\ UNCHANGED <<storage, index, dimensions, written, hist, flat>>

\* The head of the loop body (database.rs:36-48): the dimension check, then
\* storage.store_vector(&vector).await?, whose transaction may fail (fault).
InsertStore(t, fault) ==
    /\ task[t].pc = "ins_store"
    /\ LET vector == task[t].vectors[task[t].pos] IN
       IF (IsSome(dimensions) /\ Len(vector.data) # Unwrap(dimensions)) \/ fault
       THEN /\ task' = [task EXCEPT ![t] = Return(t, Err)]
            /\ lock' = Unlocked
            /\ UNCHANGED <<storage, written, hist>>
       ELSE /\ storage' = StoreVector(storage, vector)
            /\ written' = MapInsert(written, vector.id, vector)
            /\ hist' = [hist EXCEPT
                          !.reinserted = @ \/ vector.id \in DOMAIN storage,
                          !.gone = @ \ {vector.id},
                          !.first_dim = IF IsSome(@) THEN @ ELSE Some(Len(vector.data))]
            /\ task' = [task EXCEPT ![t].pc = "ins_index"]
            /\ lock' = lock
    /\ UNCHANGED <<index, dimensions, flat>>

\* What a call leaves behind when its caller dropped it: no return value.
Abandoned == [ok |-> FALSE, val |-> <<"abandoned">>]

\* The caller drops the future of insert_vectors at one of its two await
\* points.  At index.write().await (database.rs:33) nothing has been done
\* and the call is gone.  At storage.store_vector(&vector).await
\* (database.rs:48) the closure is already with spawn_blocking
\* (redb_storage.rs:52), which nothing aborts: the write guard is dropped
\* with the future and the transaction is left running on its own.
InsertAbandon(t) ==
    /\ \/ /\ task[t].pc = "ins_lock"
          /\ task' = [task EXCEPT ![t] = Return(t, Abandoned)]
          /\ lock' = lock
       \/ /\ task[t].pc = "ins_store"
          /\ LET vector == task[t].vectors[task[t].pos]
             IN ~(IsSome(dimensions) /\ Len(vector.data) # Unwrap(dimensions))
          /\ task' = [task EXCEPT ![t].pc = "ins_detached"]
          /\ lock' = Unlocked
    /\ UNCHANGED <<storage, index, dimensions, written, hist, flat>>

\* The transaction of an abandoned insert_vectors runs to its commit
\* (redb_storage.rs:53-60); nobody takes its result.
DetachedCommit(t) ==
    /\ task[t].pc = "ins_detached"
    /\ LET vector == task[t].vectors[task[t].pos] IN
       /\ storage' = StoreVector(storage, vector)
       /\ written' = MapInsert(written, vector.id, vector)
       /\ hist' = [hist EXCEPT
                     !.reinserted = @ \/ vector.id \in DOMAIN storage,
                     !.gone = @ \ {vector.id},
                     !.first_dim = IF IsSome(@) THEN @ ELSE Some(Len(vector.data))]
       /\ task' = [task EXCEPT ![t] = [Return(t, Abandoned) EXCEPT !.id = vector.id]]
    /\ UNCHANGED <<index, dimensions, lock, flat>>

\* Faulty variant of Push: the element is put at the front.
PushFront(v, x) == <<x>> \o v

\* Vec::push (ids.push at database.rs:53, results.push at :77 and :109).
Push(v, x) == Append(v, x)

\* index.add_vector, ids.push (database.rs:51-53); after the last record the
\* call returns Ok(ids) and the guard is dropped.
InsertIndex(t) ==
    /\ task[t].pc = "ins_index"
    /\ LET vector == task[t].vectors[task[t].pos]
           last == task[t].pos = Len(task[t].vectors)
           ids == Push(task[t].ids, vector.id)
       IN /\ index' \in HnswAdd(index, vector.id, vector.data)
          /\ task' = [task EXCEPT ![t] =
                        IF last THEN [Return(t, Ok(ids)) EXCEPT !.ids = ids]
                        ELSE [@ EXCEPT !.ids = ids, !.pos = @ + 1, !.pc = "ins_store"]]
          /\ lock' = IF last THEN Unlocked ELSE lock
    /\ UNCHANGED <<storage, dimensions, written, hist, flat>>

\* delete_vector, first half (database.rs:127): the store's delete commits;
\* an absent id returns Ok(false) at once.
DeleteStore(t, id) ==
    /\ Free(t)
    /\ LET d == DeleteVector(storage, id) IN
       /\ storage' = d.table
       /\ written' = MapRemove(written, id)
       /\ hist' = [hist EXCEPT !.removed = @ \/ d.existed]
       /\ task' = [task EXCEPT ![t] = [NewCall("delete") EXCEPT
                                         !.id = id,
                                         !.pc = IF d.existed THEN "del_lock" ELSE "done",
                                         !.ret = IF d.existed THEN Err ELSE Ok(FALSE)]]
    /\ UNCHANGED <<index, dimensions, lock, flat>>

\* delete_vector, second half (database.rs:128-132): under the write lock the
\* id leaves the index; the call returns Ok(true).
DeleteIndex(t) ==
    /\ task[t].pc = "del_lock"
    /\ CanWrite
    /\ \E r \in HnswRemove(index, task[t].id) : index' = r.index
    /\ hist' = [hist EXCEPT !.gone = @ \cup {task[t].id}]
    /\ task' = [task EXCEPT ![t] = Return(t, Ok(TRUE))]
    /\ UNCHANGED <<storage, dimensions, lock, written, flat>>

\* search (collection = None) or search_in_collection is called; it waits
\* for index.read().
SearchCall(t, collection, query, k, threshold) ==
    /\ Free(t)
    /\ task' = [task EXCEPT ![t] = [NewCall("search") EXCEPT
                                      !.pc = "srch_lock", !.collection = collection,
                                      !.query = query, !.k = k, !.threshold = threshold]]
    /\ UNCHANGED <<storage, index, dimensions, lock, written, hist, flat>>

\* The over-fetch: k * 2 for search, k * 5 for search_in_collection.
OverFetch(collection, k) == IF IsSome(collection) THEN k * 5 ELSE k * 2

\* Faulty variant of PassesThreshold: the threshold is not applied.
PassesAny(score, threshold) == TRUE

\* database.rs:75 and :106
PassesThreshold(score, threshold) == score >= threshold
\* database.rs:85 and :118
LoopBreak(results, k) == Len(results) >= k

\* Faulty variant of CollectionMatches: the record's tag is not looked at.
CollectionMatchesAny(vector, collection) == TRUE

\* database.rs:108: vector.collection.as_ref().map(|s| s.as_str()) ==
\* Some(collection); search (collection = None here) has no such test.
CollectionMatches(vector, collection) ==
    ~IsSome(collection) \/ vector.collection = collection

\* index.read().await is granted and index.search runs (database.rs:69-70,
\* 100-101); with no candidate the loop is skipped and the call returns.
SearchAcquire(t) ==
    /\ task[t].pc = "srch_lock"
    /\ CanRead
    /\ \E cands \in HnswSearch(index, task[t].query,
                               OverFetch(task[t].collection, task[t].k)) :
         IF cands = <<>>
         THEN /\ task' = [task EXCEPT ![t] = Return(t, Ok(<<>>))]
              /\ lock' = lock
         ELSE /\ task' = [task EXCEPT ![t].pc = "srch_fetch", ![t].pos = 1,
                                      ![t].candidates = cands]
              /\ lock' = [lock EXCEPT !.readers = @ \cup {t}]
    /\ UNCHANGED <<storage, index, dimensions, written, hist, flat>>

\* One turn of the candidate loop (database.rs:74-88, 105-121).
SearchFetch(t) ==
    /\ task[t].pc = "srch_fetch"
    /\ LET c == task[t].candidates[task[t].pos]
           pass == PassesThreshold(c.score, task[t].threshold)
           got == IF pass THEN GetVector(storage, c.id) ELSE Ok(NoneV)
           keep == /\ pass
                   /\ got.ok
                   /\ IsSome(Unwrap(got.val))
                   /\ CollectionMatches(Unwrap(Unwrap(got.val)), task[t].collection)
           results == IF keep
                      THEN Push(task[t].results,
                                [id |-> c.id, score |-> c.score,
                                 metadata |-> Unwrap(Unwrap(got.val)).metadata])
                      ELSE task[t].results
           stop == LoopBreak(results, task[t].k) \/ task[t].pos = Len(task[t].candidates)
       IN IF ~got.ok
          THEN /\ task' = [task EXCEPT ![t] = Return(t, Err)]
               /\ lock' = [lock EXCEPT !.readers = @ \ {t}]
          ELSE /\ task' = [task EXCEPT ![t] =
                             IF stop THEN Return(t, Ok(results))
                             ELSE [@ EXCEPT !.results = results, !.pos = @ + 1]]
               /\ lock' = IF stop THEN [lock EXCEPT !.readers = @ \ {t}] ELSE lock
    /\ UNCHANGED <<storage, index, dimensions, written, hist, flat>>

\* VectorDatabase::get_vector: a pass-through read of the store.
GetCall(t, id) ==
    /\ Free(t)
    /\ task' = [task EXCEPT ![t] = [NewCall("get") EXCEPT
                                      !.id = id, !.pc = "done",
                                      !.ret = GetVector(storage, id)]]
    /\ UNCHANGED <<storage, index, dimensions, lock, written, hist, flat>>

\* DatabaseStats; storage_size_bytes is the length of the data file, which
\* the model does not carry.
DatabaseStats(total_vectors, dims) ==
    [total_vectors |-> total_vectors, dimensions |-> dims]

\* get_stats, first half (database.rs:136-142): count_vectors, then the
\* fixed dimension if set, 0 for an empty store, else on to the first record.
GetStatsCall(t) ==
    /\ Free(t)
    /\ LET total_vectors == CountVectors(storage) IN
       task' = [task EXCEPT ![t] =
                  IF IsSome(dimensions)
                  THEN [NewCall("stats") EXCEPT
                          !.pc = "done",
                          !.ret = Ok(DatabaseStats(total_vectors, Unwrap(dimensions)))]
                  ELSE IF total_vectors > 0
                  THEN [NewCall("stats") EXCEPT !.pc = "stats_first",
                                                !.total = total_vectors]
                  ELSE [NewCall("stats") EXCEPT
                          !.pc = "done", !.ret = Ok(DatabaseStats(total_vectors, 0))]]
    /\ UNCHANGED <<storage, index, dimensions, lock, written, hist, flat>>

\* get_stats, second half (database.rs:143-157): get_first_vector().await?,
\* the length of its embedding, or 0 when the store has no record by now.
GetStatsFirst(t) ==
    /\ task[t].pc = "stats_first"
    /\ LET first_vector == GetFirstVector(storage) IN
       task' = [task EXCEPT ![t] =
                  IF ~first_vector.ok THEN Return(t, Err)
                  ELSE Return(t, Ok(DatabaseStats(
                                task[t].total,
                                IF IsSome(Unwrap(first_vector.val))
                                THEN Len(Unwrap(Unwrap(first_vector.val)).data)
                                ELSE 0)))]
    /\ UNCHANGED <<storage, index, dimensions, lock, written, hist, flat>>

\* The directory the store was opened on (RedbStorage::data_dir) and another
\* one.
DataDir == "data"
BackupPaths == {DataDir, "backup"}

\* RedbStorage::backup: fs::copy of <data_dir>/vectors.redb to
\* <backup_path>/vectors.redb (redb_storage.rs:130-142).  When backup_path is
\* the data directory, source and destination are one file: fs::copy opens
\* the destination for writing, which on most platforms truncates it before
\* anything is read, and on the others leaves it as it is.  The possible
\* contents of the data file afterwards.
Backup(table, backup_path) ==
    IF backup_path = DataDir THEN {table, <<>>} ELSE {table}

\* VectorDatabase::compact: RedbStorage::compact returns Ok(()) and does
\* nothing.
CompactCall(t) ==
    /\ Free(t)
    /\ task' = [task EXCEPT ![t] = [NewCall("compact") EXCEPT
                                      !.pc = "done", !.ret = Ok(<<>>)]]
    /\ UNCHANGED <<storage, index, dimensions, lock, written, hist, flat>>

\* VectorDatabase::backup: a pass-through to RedbStorage::backup.
BackupCall(t, backup_path) ==
    /\ Free(t)
    /\ storage' \in Backup(storage, backup_path)
    /\ task' = [task EXCEPT ![t] = [NewCall("backup") EXCEPT
                                      !.id = backup_path,
                                      !.pc = "done", !.ret = Ok(<<>>)]]
    /\ UNCHANGED <<index, dimensions, lock, written, hist, flat>>

\* Storage::store_vector and Storage::delete_vector called on the store alone.
RawStore(t, v) ==
    /\ Free(t)
    /\ storage' = StoreVector(storage, v)
    /\ written' = MapInsert(written, v.id, v)
    /\ task' = [task EXCEPT ![t] = [NewCall("store") EXCEPT
                                      !.id = v.id, !.pc = "done", !.ret = Ok(<<>>)]]
    /\ UNCHANGED <<index, dimensions, lock, hist, flat>>

RawDelete(t, id) ==
    /\ Free(t)
    /\ LET d == DeleteVector(storage, id) IN
       /\ storage' = d.table
       /\ written' = MapRemove(written, id)
       /\ task' = [task EXCEPT ![t] = [NewCall("raw_delete") EXCEPT
                                         !.id = id, !.pc = "done", !.ret = Ok(d.existed)]]
    /\ UNCHANGED <<index, dimensions, lock, hist, flat>>

\* VectorIndex::add_vector, remove_vector, search and size called on a graph
\* index and a flat index side by side, each call with the same arguments.
IndexAddVector(t, id, vector) ==
    /\ Free(t)
    /\ index' \in HnswAdd(index, id, vector)
    /\ flat' = FlatAdd(flat, id, vector)
    /\ hist' = [hist EXCEPT !.reinserted = @ \/ id \in hist.added,
                            !.added = @ \cup {id},
                            !.gone = @ \ {id}]
    /\ task' = [task EXCEPT ![t] = [NewCall("add") EXCEPT
                                      !.id = id, !.pc = "done", !.ret = Ok(<<>>)]]
    /\ UNCHANGED <<storage, dimensions, lock, written>>

IndexRemoveVector(t, id) ==
    /\ Free(t)
    /\ \E g \in HnswRemove(index, id) :
         LET f == FlatRemove(flat, id) IN
         /\ index' = g.index
         /\ flat' = f.index
         /\ hist' = [hist EXCEPT !.removed = @ \/ g.removed \/ f.removed,
                                 !.gone = IF g.removed \/ f.removed
                                          THEN @ \cup {id} ELSE @,
                                 !.repointed = /\ index.entry_point = Some(id)
                                               /\ IsSome(g.index.entry_point)]
         /\ task' = [task EXCEPT ![t] = [NewCall("remove") EXCEPT
                                           !.id = id, !.pc = "done",
                                           !.ret = Ok([graph |-> g.removed,
                                                       flat |-> f.removed])]]
    /\ UNCHANGED <<storage, dimensions, lock, written>>

IndexSearch(t, query, k) ==
    /\ Free(t)
    /\ \E g \in HnswSearch(index, query, k), f \in FlatSearch(flat, query, k) :
         task' = [task EXCEPT ![t] = [NewCall("index_search") EXCEPT
                                        !.query = query, !.k = k, !.pc = "done",
                                        !.ret = Ok([graph |-> g, flat |-> f])]]
    /\ UNCHANGED <<storage, index, flat, dimensions, lock, written, hist>>

IndexSize(t) ==
    /\ Free(t)
    /\ task' = [task EXCEPT ![t] = [NewCall("size") EXCEPT
                                      !.pc = "done",
                                      !.ret = Ok([graph |-> HnswSize(index),
                                                  flat |-> FlatSize(flat)])]]
    /\ UNCHANGED <<storage, index, flat, dimensions, lock, written, hist>>

\* VectorIndex::clear on both: the indexes are as new, every id is gone.
IndexClear(t) ==
    /\ Free(t)
    /\ index' = HnswClear(index)
    /\ flat' = FlatClear(flat)
    /\ hist' = [NewHist EXCEPT
                  !.gone = hist.gone \cup NodeIds(index) \cup DOMAIN flat.vectors]
    /\ task' = [task EXCEPT ![t] = [NewCall("clear") EXCEPT
                                      !.pc = "done", !.ret = Ok(<<>>)]]
    /\ UNCHANGED <<storage, dimensions, lock, written>>

\* search_layer called on the graph index from its entry point with a
\* frontier of width num_closest: what it returns, and what it visited.
SearchLayerCall(t, query, num_closest) ==
    /\ Free(t)
    /\ IsSome(index.entry_point)
    /\ \E st \in SearchLayerFinal(index, query, <<Unwrap(index.entry_point)>>,
                                   num_closest) :
         \E w \in IntoSortedVec(st.w) :
           task' = [task EXCEPT ![t] = [NewCall("search_layer") EXCEPT
                                          !.query = query, !.k = num_closest,
                                          !.pc = "done",
                                          !.ret = Ok([w |-> w, visited |-> st.visited,
                                                      steps |-> st.steps])]]
    /\ UNCHANGED <<storage, index, flat, dimensions, lock, written, hist>>

\* The same calls on a flat index alone.
FlatAddVector(t, id, vector) ==
    /\ Free(t)
    /\ flat' = FlatAdd(flat, id, vector)
    /\ task' = [task EXCEPT ![t] = [NewCall("add") EXCEPT
                                      !.id = id, !.pc = "done", !.ret = Ok(<<>>)]]
    /\ UNCHANGED <<storage, index, dimensions, lock, written, hist>>

FlatRemoveVector(t, id) ==
    /\ Free(t)
    /\ LET f == FlatRemove(flat, id) IN
       /\ flat' = f.index
       /\ task' = [task EXCEPT ![t] = [NewCall("remove") EXCEPT
                                         !.id = id, !.pc = "done", !.ret = Ok(f.removed)]]
    /\ UNCHANGED <<storage, index, dimensions, lock, written, hist>>

FlatSearchCall(t, query, k) ==
    /\ Free(t)
    /\ \E f \in FlatSearch(flat, query, k) :
         task' = [task EXCEPT ![t] = [NewCall("flat_search") EXCEPT
                                        !.query = query, !.k = k, !.pc = "done",
                                        !.ret = Ok(f)]]
    /\ UNCHANGED <<storage, index, flat, dimensions, lock, written, hist>>

\* The steps a call in flight can take; faults are the outcomes the store's
\* write transaction may have.
Step(t, faults) ==
    \/ InsertAcquire(t)
    \/ \E fault \in faults : InsertStore(t, fault)
    \/ InsertIndex(t)
    \/ DeleteIndex(t)
    \/ SearchAcquire(t)
    \/ SearchFetch(t)

\* One call of a similarity function: the task keeps the two arguments and
\* the result.
SimilarityCall(t, fn, a, b) ==
    /\ Free(t)
    /\ LET r == CASE fn = "cosine_similarity" -> similarity_cosine_similarity(a, b)
                  [] fn = "euclidean_distance" -> euclidean_distance(a, b)
                  [] fn = "dot_product" -> dot_product(a, b)
                  [] fn = "manhattan_distance" -> manhattan_distance(a, b)
       IN task' = [task EXCEPT ![t] = [NewCall(fn) EXCEPT
                                         !.vectors = <<a, b>>, !.pc = "done", !.ret = r]]
    /\ UNCHANGED <<storage, index, flat, dimensions, lock, written, hist>>

\* One call of DistanceMetric::compute.
ComputeCall(t, metric, a, b) ==
    /\ Free(t)
    /\ task' = [task EXCEPT ![t] = [NewCall("compute") EXCEPT
                                      !.id = metric, !.vectors = <<a, b>>,
                                      !.pc = "done", !.ret = compute(metric, a, b)]]
    /\ UNCHANGED <<storage, index, flat, dimensions, lock, written, hist>>

\* ------------------------------------------------------------------ inputs
V10 == FVec(<<1, 0>>)
V01 == FVec(<<0, 1>>)
V34 == FVec(<<3, 4>>)
V1 == FVec(<<1>>)

SeqIds == {"a", "b", "c"}
SeqRecords ==
    {Vector("a", V10, NoneV, NoneV, 0),
     Vector("b", V01, NoneV, Some("A"), 0),
     Vector("c", V1, NoneV, Some("B"), 0)}
Queries == {V34}
Thresholds == {-ScoreUnit, 20}

Batches(records) == UNION {[1..n -> records] : n \in 0..MaxBatch}

\* Calls made one at a time by a single caller.
NextSeq ==
    \E t \in {"t1"} :
      \/ \E vs \in Batches(SeqRecords) : InsertCall(t, vs)
      \/ \E id \in SeqIds : DeleteStore(t, id)
      \/ \E id \in SeqIds : GetCall(t, id)
      \/ \E q \in Queries, k \in 0..MaxK, th \in Thresholds :
           SearchCall(t, NoneV, q, k, th)
      \/ Step(t, BOOLEAN)

SpecSeq == Init /\ [][NextSeq]_vars

\* The same caller, and the process restarting between calls.
SpecRestart == Init /\ [][NextSeq \/ Reopen]_vars

ConcIds == {"a", "b"}
ConcRecords == {Vector("a", V10, NoneV, NoneV, 0), Vector("b", V01, NoneV, NoneV, 0)}

\* Calls made concurrently by the tasks; every store transaction commits.
Next ==
    \E t \in Tasks :
      \/ \E vs \in Batches(ConcRecords) : InsertCall(t, vs)
      \/ \E id \in ConcIds : DeleteStore(t, id)
      \/ \E k \in 1..MaxK, th \in {0, ScoreUnit} : SearchCall(t, NoneV, V10, k, th)
      \/ Step(t, {FALSE})

Spec == Init /\ [][Next]_vars

\* The store on its own: records with every kind of field, stored, read
\* back and deleted.
StoreRecords ==
    {Vector(id, data, md, coll, 0) :
       id \in {"a", "b"},
       data \in {<<Fin(1), Fin(0)>>, <<Fin(1), NaN>>, <<Inf>>},
       md \in {NoneV, Some([x \in {"k"} |-> "v"])},
       coll \in {NoneV, Some("A")}}

NextStore ==
    \E t \in {"t1"} :
      \/ \E v \in StoreRecords : RawStore(t, v)
      \/ \E id \in {"a", "b"} : GetCall(t, id)
      \/ \E id \in {"a", "b"} : RawDelete(t, id)
      \/ GetStatsCall(t)
      \/ GetStatsFirst(t)

SpecStore == Init /\ [][NextStore]_vars

\* One caller using search and search_in_collection over records with and
\* without a collection tag.
CollIds == {"a", "b"}
CollTags == {"A", "B"}
CollRecords ==
    {Vector(id, IF id = "a" THEN V10 ELSE V34, NoneV, coll, 0) :
       id \in CollIds, coll \in {NoneV} \cup {Some(tag) : tag \in CollTags}}

NextColl ==
    \E t \in {"t1"} :
      \/ \E vs \in Batches(CollRecords) : InsertCall(t, vs)
      \/ \E id \in CollIds : DeleteStore(t, id)
      \/ \E coll \in {NoneV} \cup {Some(tag) : tag \in CollTags},
            k \in 0..MaxK, th \in Thresholds :
           SearchCall(t, coll, V10, k, th)
      \/ Step(t, {FALSE})

SpecColl == Init /\ [][NextColl]_vars

\* The two index variants driven side by side.
IndexIds == {"a", "b", "c"}
IndexEntries ==
    {<<"a", V10>>, <<"b", V34>>, <<"b", V10>>, <<"c", V01>>}

NextIndex ==
    \E t \in {"t1"} :
      \/ \E e \in IndexEntries : IndexAddVector(t, e[1], e[2])
      \/ \E id \in IndexIds : IndexRemoveVector(t, id)
      \/ \E q \in Queries, k \in 0..MaxK : IndexSearch(t, q, k)
      \/ IndexSize(t)
      \/ IndexClear(t)

SpecIndex == Init /\ [][NextIndex]_vars

\* The frontier widths search_layer is called with: k.max(50) by search
\* (hnsw.rs:191) and ef_construction by add_vector (hnsw.rs:143).
LayerWidths == {Max2(k, ef_search_min) : k \in 1..MaxK} \cup {ef_construction}

\* The graph index's traversal on the graphs that adds and removes build.
NextLayer ==
    \E t \in {"t1"} :
      \/ \E e \in IndexEntries : IndexAddVector(t, e[1], e[2])
      \/ \E id \in IndexIds : IndexRemoveVector(t, id)
      \/ \E q \in Queries, n \in LayerWidths : SearchLayerCall(t, q, n)

SpecLayer == Init /\ [][NextLayer]_vars

\* The flat index alone, its embeddings finite or not.
VInf == <<Inf, Fin(0)>>
FlatVectors == {V10, V34, VInf}

NextFlat ==
    \E t \in {"t1"} :
      \/ \E id \in IndexIds, v \in FlatVectors : FlatAddVector(t, id, v)
      \/ \E id \in IndexIds : FlatRemoveVector(t, id)
      \/ \E k \in 0..MaxK : FlatSearchCall(t, V10, k)

SpecFlat == Init /\ [][NextFlat]_vars
\* The similarity functions on vectors of length 0 to 3 with components that
\* are zero, ordinary, tiny, big, infinite or NaN; every sum of squares they
\* give rise to is a perfect square.
SimilarityFns == {"cosine_similarity", "euclidean_distance", "dot_product",
                  "manhattan_distance"}
SimVectors ==
    {<<>>, FVec(<<0>>), FVec(<<3>>), <<Tiny(1)>>, <<Big(1)>>, <<Inf>>, <<NaN>>,
     FVec(<<0, 0>>), FVec(<<3, 0>>), V34, FVec(<<3, 4, 0>>)}

NextSimilarity ==
    \E t \in {"t1"}, a \in SimVectors, b \in SimVectors :
      \/ \E fn \in SimilarityFns : SimilarityCall(t, fn, a, b)
      \/ \E metric \in DistanceMetric : ComputeCall(t, metric, a, b)

SpecSimilarity == Init /\ [][NextSimilarity]_vars

\* A caller inserting batches, free to drop its call at an await point; the
\* blocking pool runs every transaction handed to it.
NextCancel ==
    \E t \in {"t1"} :
      \/ \E vs \in Batches(SeqRecords) : InsertCall(t, vs)
      \/ InsertAcquire(t)
      \/ InsertStore(t, FALSE)
      \/ InsertIndex(t)
      \/ InsertAbandon(t)
      \/ DetachedCommit(t)

SpecCancel ==
    Init /\ [][NextCancel]_vars /\ \A t \in Tasks : WF_vars(DetachedCommit(t))

\* One caller using every operation of the database.
NextFrame ==
    \E t \in {"t1"} :
      \/ \E vs \in Batches(ConcRecords) : InsertCall(t, vs)
      \/ \E id \in ConcIds : DeleteStore(t, id)
      \/ \E id \in ConcIds : GetCall(t, id)
      \/ \E c \in {NoneV, Some("A")}, k \in 1..MaxK :
           SearchCall(t, c, V10, k, 0)
      \/ GetStatsCall(t)
      \/ GetStatsFirst(t)
      \/ CompactCall(t)
      \/ \E path \in BackupPaths : BackupCall(t, path)
      \/ Step(t, {FALSE})

SpecFrame == Init /\ [][NextFrame]_vars

\* Two callers with insert_vectors, delete_vector, search and
\* search_in_collection in flight together.  The lock is fair: a call that
\* can be granted the lock again and again is granted it; a call that holds
\* what it needs goes on, every store transaction completing.
LiveRecords == {Vector("a", V10, NoneV, NoneV, 0)}

NextLive ==
    \E t \in Tasks :
      \/ \E vs \in Batches(LiveRecords) : InsertCall(t, vs)
      \/ DeleteStore(t, "a")
      \/ \E c \in {NoneV, Some("A")} : SearchCall(t, c, V10, 1, 0)
      \/ Step(t, {FALSE})

SpecLive ==
    Init /\ [][NextLive]_vars /\ \A t \in Tasks : SF_vars(Step(t, {FALSE}))

\* ------------------------------------------------------------------ claims
HoldsWrite(t) == task[t].pc \in {"ins_store", "ins_index"}
HoldsRead(t) == task[t].pc = "srch_fetch"
Quiescent == \A t \in Tasks : Free(t)

\* C1 (as claimed): once a first record has been accepted, a later call of
\* insert_vectors (the store held records when it began) that comes to a
\* record whose embedding length differs from that first length fails there
\* and writes nothing.
C1_MismatchRejected ==
    [][\A t \in Tasks :
         (/\ task[t].pc = "ins_store"
          /\ task'[t] # task[t]
          /\ task[t].pre # {}
          /\ IsSome(hist.first_dim)
          /\ Len(task[t].vectors[task[t].pos].data) # Unwrap(hist.first_dim))
         => (task'[t].pc = "done" /\ task'[t].ret = Err /\ storage' = storage)]_vars

\* C2 (as claimed): once every call has returned, the index and the store
\* hold the same ids.
C2_CoherentWhenQuiescent == Quiescent => NodeIds(index) = DOMAIN storage

\* C3 (as claimed): every id the index holds has a record in the store.
C3_IndexWithinStore == NodeIds(index) \subseteq DOMAIN storage

\* C3 (amended): every id the index holds has a record in the store, or is
\* the id of a delete_vector call that has deleted it from the store and has
\* not yet removed it from the index.
C3_IndexWithinStoreOrDeleting ==
    \A id \in NodeIds(index) :
      \/ id \in DOMAIN storage
      \/ \E t \in Tasks : task[t].pc = "del_lock" /\ task[t].id = id

C3_Witness ==
    \E t \in Tasks :
      /\ task[t].pc = "del_lock"
      /\ task[t].id \in NodeIds(index)
      /\ task[t].id \notin DOMAIN storage

\* C4 (as claimed): right after the orchestrator is constructed over a store
\* that holds records, the index holds exactly the store's ids.
C4_ReopenRebuildsIndex == [][Reopen => NodeIds(index') = DOMAIN storage']_vars

\* The step in which insert_vectors fails at the record at task[t].pos.
InsertFails(t) == task[t].pc = "ins_store" /\ task'[t].pc = "done"
BatchId(t, j) == task[t].vectors[j].id
PrefixApplied(t) ==
    \A j \in 1..(task[t].pos - 1) :
      BatchId(t, j) \in DOMAIN storage' /\ BatchId(t, j) \in NodeIds(index')

\* C5 (as claimed): when insert_vectors fails at the i-th record, the records
\* before it are in the store and the index, the i-th and later ones are in
\* neither.
C5_PrefixOnly ==
    [][\A t \in Tasks :
         InsertFails(t) =>
           /\ PrefixApplied(t)
           /\ \A j \in task[t].pos..Len(task[t].vectors) :
                BatchId(t, j) \notin DOMAIN storage' /\ BatchId(t, j) \notin NodeIds(index')]_vars

\* C5 (amended): when insert_vectors, with no other call running, fails at the
\* i-th record, the records before it are in the store and the index, the
\* failing step writes nothing, and the i-th and later records are in neither
\* unless their id was stored before the call or occurs earlier in the batch.
C5_PrefixOnlyUnlessPresent ==
    [][\A t \in Tasks :
         InsertFails(t) =>
           /\ PrefixApplied(t)
           /\ storage' = storage /\ index' = index
           /\ \A j \in task[t].pos..Len(task[t].vectors) :
                (/\ BatchId(t, j) \notin task[t].pre
                 /\ \A i \in 1..(task[t].pos - 1) : BatchId(t, i) # BatchId(t, j))
                => (BatchId(t, j) \notin DOMAIN storage' /\ BatchId(t, j) \notin NodeIds(index'))]_vars

C5_Witness ==
    \E t \in Tasks :
      /\ task[t].pc = "done" /\ task[t].op = "insert" /\ task[t].ret = Err
      /\ Len(task[t].ids) >= 1
      /\ task[t].ids[1] \in DOMAIN storage /\ task[t].ids[1] \in NodeIds(index)

\* C6: while insert_vectors holds the write lock no other task holds the
\* lock, no search runs index.search, and whoever else steps leaves the index
\* alone.
C6_WriteLockExclusive ==
    /\ [](\A t \in Tasks : HoldsWrite(t) =>
            \A u \in Tasks \ {t} : ~HoldsWrite(u) /\ ~HoldsRead(u))
    /\ [][\A t \in Tasks : HoldsWrite(t) =>
            \A u \in Tasks \ {t} :
              /\ task[u].pc = "srch_lock" => task'[u].pc = "srch_lock"
              /\ task'[u] # task[u] => index' = index]_vars

C6_Witness ==
    \E t \in Tasks, u \in Tasks :
      /\ task[t].pc = "ins_store" /\ task[t].pos = 2
      /\ task[u].pc = "srch_lock"

\* C7 (as claimed): get_vector on the id of a stored record returns a record
\* equal to it in every field.
C7_RoundTrip ==
    \A t \in Tasks :
      (task[t].pc = "done" /\ task[t].op = "get" /\ task[t].id \in DOMAIN written)
      => task[t].ret = Ok(Some(written[task[t].id]))

\* C8: delete_vector on an absent id returns Ok(false) at once; on a present
\* id it goes on to return Ok(true); called again on the id it has just
\* deleted it returns Ok(false).
C8_DeleteIdempotent ==
    [][\A t \in Tasks :
         /\ \A id \in SeqIds :
              (/\ task'[t] # task[t] /\ task'[t].op = "delete"
               /\ task[t].pc # "del_lock" /\ task'[t].id = id) =>
                /\ id \notin DOMAIN storage
                     => (task'[t].pc = "done" /\ task'[t].ret = Ok(FALSE))
                /\ id \in DOMAIN storage => task'[t].pc = "del_lock"
                /\ (/\ task[t].pc = "done" /\ task[t].op = "delete"
                    /\ task[t].id = id /\ task[t].ret = Ok(TRUE))
                     => (task'[t].pc = "done" /\ task'[t].ret = Ok(FALSE))
         /\ (task[t].pc = "del_lock" /\ task'[t] # task[t])
              => (task'[t].pc = "done" /\ task'[t].ret = Ok(TRUE))]_vars

C8_Witness ==
    \E t \in Tasks :
      /\ task[t].pc = "done" /\ task[t].op = "delete" /\ task[t].ret = Ok(TRUE)
      /\ task[t].id \notin DOMAIN storage /\ task[t].id \notin NodeIds(index)

\* The results a search has kept so far, or has returned.
ResultsOf(tk) == IF tk.pc = "done" THEN Unwrap(tk.ret.val) ELSE tk.results
Searching(tk) == tk.op = "search" /\ (tk.pc = "srch_fetch" \/ (tk.pc = "done" /\ tk.ret.ok))

\* C9: search keeps at most k results, each with score >= threshold, and
\* each kept in a step in which the store held a record under its id.
C9_SearchResultsBounded ==
    /\ [](\A t \in Tasks : Searching(task[t]) =>
            /\ Len(ResultsOf(task[t])) <= task[t].k
            /\ \A i \in 1..Len(ResultsOf(task[t])) :
                 ResultsOf(task[t])[i].score >= task[t].threshold)
    /\ [][\A t \in Tasks :
            (task[t].pc = "srch_fetch" /\ Searching(task'[t])
             /\ ResultsOf(task'[t]) # task[t].results)
            => \E e \in {ResultsOf(task'[t])[Len(ResultsOf(task'[t]))]} :
                 /\ ResultsOf(task'[t]) = Append(task[t].results, e)
                 /\ e.id = task[t].candidates[task[t].pos].id
                 /\ e.id \in DOMAIN storage]_vars

C9_Witness ==
    \E t \in Tasks :
      /\ task[t].pc = "done" /\ task[t].op = "search" /\ task[t].ret.ok
      /\ task[t].threshold > 0
      /\ Len(Unwrap(task[t].ret.val)) = 1
      /\ Cardinality(NodeIds(index)) >= 2

\* A search has returned, only distinct ids were ever inserted, none was
\* removed, k <= N and every stored vector's score passes the threshold.
ExactCountCase(t) ==
    /\ task[t].pc = "done" /\ task[t].op = "search" /\ task[t].ret.ok
    /\ ~IsSome(task[t].collection)
    /\ ~hist.removed /\ ~hist.reinserted
    /\ task[t].k <= Cardinality(DOMAIN storage)
    /\ \A id \in DOMAIN storage :
         PassesThreshold(cosine_similarity(task[t].query, written[id].data),
                         task[t].threshold)

\* C10 (as claimed): in that case search returns exactly k results.
C10_ExactlyK ==
    \A t \in Tasks : ExactCountCase(t) => Len(Unwrap(task[t].ret.val)) = task[t].k

\* C10 (amended): in that case search returns exactly min(k, max_connections
\* + 1) results: the nodes added after the first max_connections + 1 are
\* linked from no node and no search reaches them.
C10_ExactlyKUpToFanOut ==
    \A t \in Tasks :
      ExactCountCase(t) =>
        Len(Unwrap(task[t].ret.val)) = Min2(task[t].k, max_connections + 1)

C10_Witness ==
    \E t \in Tasks :
      /\ ExactCountCase(t)
      /\ task[t].k = max_connections + 2
      /\ Len(Unwrap(task[t].ret.val)) = max_connections + 1

\* The flat index holding exactly the embeddings of the stored records.
FlatOfStore == [vectors |-> [id \in DOMAIN storage |-> written[id].data]]

\* A search has returned on a small database: only distinct ids were ever
\* inserted, none was removed, there are at most max_connections + 1 of them
\* (16 + 1 in the code) and every stored vector's score passes the threshold.
SmallDatabaseCase(t) ==
    /\ task[t].pc = "done" /\ task[t].op = "search" /\ task[t].ret.ok
    /\ ~IsSome(task[t].collection)
    /\ ~hist.removed /\ ~hist.reinserted
    /\ Cardinality(DOMAIN storage) <= max_connections + 1
    /\ \A id \in DOMAIN storage :
         PassesThreshold(cosine_similarity(task[t].query, written[id].data),
                         task[t].threshold)

\* C11: on a small database search returns min(k, N) results, and they are a
\* result of the flat index's search over the same embeddings (its top k, in
\* one of the orders ties allow): the first is a stored vector of the highest
\* cosine similarity to the query.
C11_MatchesFlatTopK ==
    \A t \in Tasks :
      SmallDatabaseCase(t) =>
        LET r == Unwrap(task[t].ret.val) IN
        /\ Len(r) = Min2(task[t].k, Cardinality(DOMAIN storage))
        /\ \E f \in FlatSearch(FlatOfStore, task[t].query, task[t].k) :
             /\ Len(f) = Len(r)
             /\ \A i \in 1..Len(r) : f[i].id = r[i].id /\ f[i].score = Fin(r[i].score)

C11_Witness ==
    \E t \in Tasks :
      /\ SmallDatabaseCase(t)
      /\ Cardinality(DOMAIN storage) = max_connections + 1
      /\ task[t].k = 1
      /\ Len(Unwrap(task[t].ret.val)) = 1
      /\ Some(Unwrap(task[t].ret.val)[1].id) # index.entry_point

\* C12: search_in_collection(tag, ..) keeps at most k results, and every id
\* it keeps or returns has a stored record whose collection is exactly tag.
C12_OnlyTaggedRecords ==
    \A t \in Tasks :
      (Searching(task[t]) /\ IsSome(task[t].collection)) =>
        /\ Len(ResultsOf(task[t])) <= task[t].k
        /\ \A i \in 1..Len(ResultsOf(task[t])) :
             /\ ResultsOf(task[t])[i].id \in DOMAIN storage
             /\ written[ResultsOf(task[t])[i].id].collection = task[t].collection

C12_Witness ==
    \E t \in Tasks :
      /\ task[t].pc = "done" /\ task[t].op = "search" /\ task[t].ret.ok
      /\ task[t].collection = Some("A") /\ task[t].k >= 2
      /\ task[t].threshold = -ScoreUnit
      /\ Len(Unwrap(task[t].ret.val)) = 1
      /\ NodeIds(index) = CollIds /\ DOMAIN storage = CollIds
      /\ \E id \in CollIds : written[id].collection = Some("B")

\* At most k entries, no id twice, and no entry with a lower score placed
\* before one with a higher score (a NaN score is compared with nothing).
IsTopKShaped(r, k) ==
    /\ Len(r) <= k
    /\ \A i, j \in 1..Len(r) : i < j => r[i].id # r[j].id
    /\ \A i, j \in 1..Len(r) :
         (i < j /\ IsFinite(r[i].score) /\ IsFinite(r[j].score))
         => r[i].score.val >= r[j].score.val

\* The graph index's results with their scores as f32 values.
AsF32Scores(r) == [i \in 1..Len(r) |-> [id |-> r[i].id, score |-> Fin(r[i].score)]]

\* C13 (as claimed), Flat Index: search returns at most k results, ordered
\* by non-increasing score, no id twice.
C13_FlatSearchOrdered ==
    \A t \in Tasks :
      (task[t].pc = "done" /\ task[t].op = "flat_search")
      => IsTopKShaped(Unwrap(task[t].ret.val), task[t].k)

\* C13, Graph Index over finite embeddings: the same of its search.
C13_GraphSearchOrdered ==
    \A t \in Tasks :
      (task[t].pc = "done" /\ task[t].op = "index_search")
      => IsTopKShaped(AsF32Scores(Unwrap(task[t].ret.val).graph), task[t].k)

RECURSIVE IsSubsequence(_, _)
IsSubsequence(a, b) ==
    IF a = <<>> THEN TRUE
    ELSE IF b = <<>> THEN FALSE
    ELSE IF Head(a) = Head(b) THEN IsSubsequence(Tail(a), Tail(b))
    ELSE IsSubsequence(a, Tail(b))

IdsOf(r) == [i \in 1..Len(r) |-> r[i].id]

\* C14: the ids search and search_in_collection have kept, and the ids they
\* return, are a subsequence, in the same order, of the ids of the candidate
\* sequence the index returned to that call.
C14_SubsequenceOfCandidates ==
    /\ [](\A t \in Tasks :
            task[t].pc = "srch_fetch" =>
              IsSubsequence(IdsOf(task[t].results),
                            IdsOf(Take(task[t].candidates, task[t].pos - 1))))
    /\ [][\A t \in Tasks :
            /\ (task[t].pc = "srch_fetch" /\ task'[t].pc = "done" /\ task'[t].ret.ok)
                 => IsSubsequence(IdsOf(Unwrap(task'[t].ret.val)),
                                  IdsOf(task[t].candidates))
            /\ (task[t].pc = "srch_lock" /\ task'[t].pc = "done")
                 => task'[t].ret = Ok(<<>>)]_vars

C14_Witness ==
    \E t \in Tasks :
      /\ task[t].pc = "done" /\ task[t].op = "search" /\ task[t].ret.ok
      /\ IsSome(task[t].collection)
      /\ Len(Unwrap(task[t].ret.val)) = 2
      /\ Unwrap(task[t].ret.val)[1].score > Unwrap(task[t].ret.val)[2].score

\* C15, on the indexes: no search of the graph index or of the flat index
\* returns an id that remove_vector has removed and add_vector has not put
\* back since.
C15_RemovedNotReturned ==
    \A t \in Tasks :
      (task[t].pc = "done" /\ task[t].op = "index_search") =>
        /\ Range(IdsOf(Unwrap(task[t].ret.val).graph)) \cap hist.gone = {}
        /\ Range(IdsOf(Unwrap(task[t].ret.val).flat)) \cap hist.gone = {}

\* The graph search ran over a node that still lists a removed id.
C15_Witness ==
    \E t \in Tasks :
      /\ task[t].pc = "done" /\ task[t].op = "index_search"
      /\ Len(Unwrap(task[t].ret.val).graph) >= 1
      /\ Len(Unwrap(task[t].ret.val).flat) >= 2
      /\ \E id \in NodeIds(index) :
           /\ Range(index.nodes[id].connections) \cap hist.gone # {}
           /\ id = Unwrap(task[t].ret.val).graph[1].id

\* C15, on the orchestrator: once delete_vector has returned true for an id,
\* and until insert_vectors stores the id again, index.search hands no search
\* that id as a candidate and no search keeps it as a result.
C15_DeletedNotReturned ==
    [][\A t \in Tasks :
         /\ (task[t].pc = "srch_lock" /\ task'[t].pc = "srch_fetch")
              => Range(IdsOf(task'[t].candidates)) \cap hist.gone = {}
         /\ (task[t].pc = "srch_fetch" /\ Searching(task'[t]))
              => Range(IdsOf(ResultsOf(task'[t]))) \cap hist.gone = {}]_vars

\* Only pairwise distinct ids were added, to empty indexes, and none removed.
DistinctAddsOnly == ~hist.removed /\ ~hist.reinserted

\* C16: after N add_vector calls with pairwise distinct ids and no removal,
\* size() is N on the graph index and on the flat index.
C16_SizeCountsAdds ==
    DistinctAddsOnly =>
      /\ HnswSize(index) = Cardinality(hist.added)
      /\ FlatSize(flat) = Cardinality(hist.added)
      /\ \A t \in Tasks :
           (task[t].pc = "done" /\ task[t].op = "size") =>
             task[t].ret = Ok([graph |-> Cardinality(hist.added),
                              flat |-> Cardinality(hist.added)])

C16_Witness ==
    \E t \in Tasks :
      /\ DistinctAddsOnly
      /\ task[t].pc = "done" /\ task[t].op = "size"
      /\ Unwrap(task[t].ret.val).graph = max_connections + 2
      /\ Unwrap(task[t].ret.val).flat = max_connections + 2

\* C17: a search of a database whose index is empty returns Ok with an empty
\* result as soon as it has the read lock, and a search that has returned
\* over an empty store has returned Ok with an empty result, whatever the
\* query, k and threshold.
C17_EmptySearchIsEmpty ==
    /\ [](\A t \in Tasks :
            (/\ task[t].pc = "done" /\ task[t].op = "search"
             /\ (DOMAIN storage = {} \/ NodeIds(index) = {}))
            => task[t].ret = Ok(<<>>))
    /\ [][\A t \in Tasks :
            (/\ task[t].pc = "srch_lock" /\ task'[t] # task[t]
             /\ NodeIds(index) = {})
            => (task'[t].pc = "done" /\ task'[t].ret = Ok(<<>>))]_vars

\* The database was used and emptied again before the search.
C17_Witness ==
    \E t \in Tasks :
      /\ task[t].pc = "done" /\ task[t].op = "search" /\ task[t].ret = Ok(<<>>)
      /\ task[t].k = MaxK /\ task[t].threshold = -ScoreUnit
      /\ DOMAIN storage = {} /\ NodeIds(index) = {}
      /\ hist.removed

\* C18: an insert_vectors call that returns Ok returns the ids of its input
\* records, one per record and in input order; for an empty batch it returns
\* an empty list and leaves the store and the index as they were.
C18_ReturnsInputIds ==
    [][\A t \in Tasks :
         (/\ task[t].op = "insert" /\ task[t].pc # "done"
          /\ task'[t].pc = "done" /\ task'[t].ret.ok)
         => /\ task'[t].ret =
                 Ok([i \in 1..Len(task[t].vectors) |-> task[t].vectors[i].id])
            /\ task[t].vectors = <<>> => (storage' = storage /\ index' = index)]_vars

C18_Witness ==
    \E t \in Tasks :
      /\ task[t].pc = "done" /\ task[t].op = "insert" /\ task[t].ret.ok
      /\ Len(Unwrap(task[t].ret.val)) = 2
      /\ Unwrap(task[t].ret.val)[1] # Unwrap(task[t].ret.val)[2]

\* What get_stats is to report of the present store.
StatsAsClaimed(stats) ==
    /\ stats.total_vectors = Cardinality(DOMAIN storage)
    /\ IF IsSome(dimensions) THEN stats.dimensions = Unwrap(dimensions)
       ELSE IF DOMAIN storage = {} THEN stats.dimensions = 0
       ELSE \E id \in DOMAIN storage : stats.dimensions = Len(written[id].data)

\* C19 (as claimed): get_stats reports the number of stored records, and as
\* dimensions the fixed dimension if set, else 0 for an empty store, else the
\* embedding length of one stored record.
C19_StatsReport ==
    \A t \in Tasks :
      (task[t].pc = "done" /\ task[t].op = "stats")
      => (task[t].ret.ok /\ StatsAsClaimed(Unwrap(task[t].ret.val)))

\* C19, when get_stats returns Ok: its report is as claimed.
C19_StatsReportWhenOk ==
    \A t \in Tasks :
      (task[t].pc = "done" /\ task[t].op = "stats" /\ task[t].ret.ok)
      => StatsAsClaimed(Unwrap(task[t].ret.val))

\* C20: get_vector on an id the store does not hold returns Ok(None) and
\* leaves the store and the index as they were.
C20_GetAbsentIsNone ==
    [][\A t \in Tasks :
         (/\ task'[t] # task[t]
          /\ task'[t].op = "get"
          /\ task'[t].id \notin DOMAIN storage)
         => /\ task'[t].pc = "done" /\ task'[t].ret = Ok(NoneV)
            /\ storage' = storage /\ index' = index]_vars

C20_Witness ==
    \E t \in Tasks :
      /\ task[t].pc = "done" /\ task[t].op = "get" /\ task[t].ret = Ok(NoneV)
      /\ task[t].id \notin DOMAIN storage
      /\ DOMAIN storage # {} /\ NodeIds(index) # {}

\* C21: remove_vector, on the graph index and on the flat index, returns
\* true exactly when the id was in the index right before the call, the id
\* is not in the index afterwards, and when the id was absent the index is
\* left as it was.
C21_RemoveReportsPresence ==
    [][\A t \in Tasks :
         (task'[t] # task[t] /\ task'[t].op = "remove") =>
           LET id == task'[t].id
               removed == Unwrap(task'[t].ret.val)
           IN /\ removed.graph = (id \in NodeIds(index))
              /\ removed.flat = (id \in DOMAIN flat.vectors)
              /\ id \notin NodeIds(index') /\ id \notin DOMAIN flat'.vectors
              /\ id \notin NodeIds(index) => index' = index
              /\ id \notin DOMAIN flat.vectors => flat' = flat]_vars

\* A removal that took a node out of a graph of three.
C21_Witness ==
    \E t \in Tasks :
      /\ task[t].pc = "done" /\ task[t].op = "remove"
      /\ Unwrap(task[t].ret.val) = [graph |-> TRUE, flat |-> TRUE]
      /\ HnswSize(index) = 2 /\ FlatSize(flat) = 2
      /\ task[t].id \notin NodeIds(index)

\* The record insert_vectors is working on.
CurrentRecord(t) == task[t].vectors[task[t].pos]

\* C24: in insert_vectors the index add of a record happens in a later step
\* than its store write and finds the record in the store; the id is pushed
\* in no step before the one that adds it to the index; a failed store write
\* leaves the index and the store as they were and ends the call, so no later
\* record of the batch is processed.
C24_StoreThenIndexThenId ==
    [][\A t \in Tasks :
         /\ (task[t].pc = "ins_store" /\ task'[t] # task[t]) =>
              /\ index' = index /\ task'[t].ids = task[t].ids
              /\ \/ /\ task'[t].pc = "ins_index"
                    /\ task'[t].pos = task[t].pos
                    /\ CurrentRecord(t).id \in DOMAIN storage'
                    /\ storage'[CurrentRecord(t).id] = Serialize(CurrentRecord(t))
                 \/ /\ task'[t].pc = "done" /\ task'[t].ret = Err
                    /\ storage' = storage
         /\ (task[t].pc = "ins_index" /\ task'[t] # task[t]) =>
              /\ CurrentRecord(t).id \in DOMAIN storage
              /\ CurrentRecord(t).id \in NodeIds(index')
              /\ task'[t].ids = Append(task[t].ids, CurrentRecord(t).id)
              /\ storage' = storage
         /\ (task[t].op = "insert" /\ task[t].pc = "done" /\ task'[t].op = "insert")
              => task'[t].ids = task[t].ids \/ task'[t].ids = <<>>]_vars

\* The second record's store write failed: the first record is in the store
\* and the index, the second in neither.
C24_Witness ==
    \E t \in Tasks :
      /\ task[t].pc = "done" /\ task[t].op = "insert" /\ task[t].ret = Err
      /\ Len(task[t].ids) = 1
      /\ DOMAIN storage = {task[t].ids[1]}
      /\ NodeIds(index) = {task[t].ids[1]}
      /\ ~hist.removed /\ ~hist.reinserted

\* The entry point is None exactly when the node table is empty, and when set
\* it names a node of the table.
EntryPointConsistent(idx) ==
    /\ (idx.entry_point = NoneV) <=> (NodeIds(idx) = {})
    /\ IsSome(idx.entry_point) => Unwrap(idx.entry_point) \in NodeIds(idx)

\* C25: after any sequence of add_vector, remove_vector and clear the entry
\* point is None exactly when the node table is empty and otherwise names a
\* node of the table; removing the entry-point node while others remain
\* re-points it to a remaining node.
C25_EntryPointInvariant ==
    /\ [](EntryPointConsistent(index))
    /\ [][\A t \in Tasks :
            (/\ task'[t] # task[t] /\ task'[t].op = "remove"
             /\ index.entry_point = Some(task'[t].id)
             /\ NodeIds(index) # {task'[t].id})
            => /\ IsSome(index'.entry_point)
               /\ Unwrap(index'.entry_point) \in NodeIds(index) \ {task'[t].id}
               /\ Unwrap(index'.entry_point) \in NodeIds(index')]_vars

\* The entry-point node was removed and the entry point moved to one of the
\* two remaining nodes.
C25_Witness ==
    /\ hist.repointed
    /\ HnswSize(index) = 2
    /\ IsSome(index.entry_point)
    /\ Unwrap(index.entry_point) \in NodeIds(index)

\* No node of the table lists id as a neighbor.
NoReferenceTo(idx, id) ==
    \A x \in NodeIds(idx) : id \notin Range(idx.nodes[x].connections)

\* C26: after remove_vector(id) returns true on the graph index, no remaining
\* node's neighbor list contains id.
C26_NoDanglingReference ==
    [][\A t \in Tasks :
         (/\ task'[t] # task[t] /\ task'[t].op = "remove"
          /\ Unwrap(task'[t].ret.val).graph)
         => NoReferenceTo(index', task'[t].id)]_vars

\* C27: in every reachable graph state every node's neighbor list has at most
\* max_connections entries.
C27_FanOutBound ==
    \A x \in NodeIds(index) : Len(index.nodes[x].connections) <= max_connections

\* Three nodes, each with a full neighbor list.
C27_Witness ==
    /\ HnswSize(index) = 3
    /\ \A x \in NodeIds(index) : Len(index.nodes[x].connections) = max_connections

\* x lists y as a neighbor and y does not list x back.
OneSided(idx, x, y) ==
    /\ x \in NodeIds(idx) /\ y \in NodeIds(idx) /\ x # y
    /\ y \in Range(idx.nodes[x].connections)
    /\ x \notin Range(idx.nodes[y].connections)

\* C28 as stated: whenever add_vector selects a neighbor whose list already has
\* max_connections entries, the graph afterwards has the edge from the added
\* node to that neighbor on one side only.
C28_TruncationOneSided ==
    [][\A t \in Tasks :
         (task'[t] # task[t] /\ task'[t].op = "add")
         => \A y \in Range(index'.nodes[task'[t].id].connections) :
              (/\ y \in NodeIds(index)
               /\ Len(index.nodes[y].connections) >= max_connections)
              => OneSided(index', task'[t].id, y)]_vars

\* C28, amended: whenever add_vector selects as neighbor another node whose
\* list already has max_connections entries, none of them the added id, the
\* cutoff drops the added id from that list again and the edge from the added
\* node to that neighbor is on one side only.
C28_TruncationOneSidedUnlessListed ==
    [][\A t \in Tasks :
         (task'[t] # task[t] /\ task'[t].op = "add")
         => \A y \in Range(index'.nodes[task'[t].id].connections) :
              (/\ y \in NodeIds(index) /\ y # task'[t].id
               /\ Len(index.nodes[y].connections) >= max_connections
               /\ task'[t].id \notin Range(index.nodes[y].connections))
              => /\ Len(index'.nodes[y].connections) = max_connections
                 /\ index'.nodes[y].connections = index.nodes[y].connections
                 /\ OneSided(index', task'[t].id, y)]_vars

\* Only distinct ids were added, nothing removed, and the graph holds a
\* one-sided edge.
C28_Witness ==
    /\ DistinctAddsOnly
    /\ \E x, y \in NodeIds(index) : OneSided(index, x, y)

\* The nodes of the table reached from the set seen by following neighbor
\* lists.
RECURSIVE ReachableFrom(_, _)
ReachableFrom(idx, seen) ==
    LET more == {y \in NodeIds(idx) :
                   \E x \in seen : y \in Range(idx.nodes[x].connections)} \ seen
    IN IF more = {} THEN seen ELSE ReachableFrom(idx, seen \cup more)

\* The nodes reachable from the entry point.
Reachable(idx) ==
    IF IsSome(idx.entry_point) /\ Unwrap(idx.entry_point) \in NodeIds(idx)
    THEN ReachableFrom(idx, {Unwrap(idx.entry_point)})
    ELSE {}

\* Queries of every direction used by the index inputs.
AnyQueries == {V10, V01, V34, V1}

\* C29: after more than max_connections + 1 adds with distinct ids and no
\* removal, some node of the graph is not reachable from the entry point by
\* following neighbor lists, and no search, whatever the query and k, returns
\* a node that is not reachable.
C29_TruncationDisconnects ==
    (DistinctAddsOnly /\ HnswSize(index) > max_connections + 1)
    => /\ NodeIds(index) \ Reachable(index) # {}
       /\ Cardinality(Reachable(index)) = max_connections + 1
       /\ \A q \in AnyQueries, k \in 1..MaxK :
            \A r \in HnswSearch(index, q, k) :
              Range(IdsOf(r)) \subseteq Reachable(index)

\* Three distinct ids added, none removed, one of them cut off from the entry
\* point, and a search for as many results as there are nodes has answered.
C29_Witness ==
    /\ DistinctAddsOnly /\ HnswSize(index) = 3
    /\ NodeIds(index) \ Reachable(index) # {}
    /\ \E t \in Tasks :
         /\ task[t].pc = "done" /\ task[t].op = "index_search" /\ task[t].k = 3
         /\ Len(Unwrap(task[t].ret.val).graph) = 2

\* C30: the frontier search_layer returns never exceeds its width and holds
\* the closest nodes visited: no visited node of the table left out of it has
\* a higher similarity to the query than a member of it.
C30_FrontierHoldsClosestVisited ==
    [][\A t \in Tasks :
         (task'[t] # task[t] /\ task'[t].op = "search_layer")
         => LET r == Unwrap(task'[t].ret.val)
                members == Range(IdsOf(r.w))
            IN /\ Len(r.w) <= task'[t].k
               /\ \A v \in (r.visited \cap NodeIds(index)) \ members :
                    \A i \in 1..Len(r.w) :
                      r.w[i].distance >=
                        cosine_similarity(task'[t].query, index.nodes[v].vector)]_vars

\* The part of C30 the traversal keeps: the frontier never exceeds its width.
C30_FrontierWithinWidth ==
    [][\A t \in Tasks :
         (task'[t] # task[t] /\ task'[t].op = "search_layer")
         => Len(Unwrap(task'[t].ret.val).w) <= task'[t].k]_vars

\* A finished call of one of the four similarity functions or of compute.
SimilarityDone(tk) ==
    tk.pc = "done" /\ tk.op \in SimilarityFns \cup {"compute"}

\* C22: cosine_similarity, euclidean_distance, dot_product and
\* manhattan_distance, called directly or through DistanceMetric::compute,
\* fail for every pair of vectors of different lengths and succeed for every
\* pair of equal length.
C22_FailsExactlyOnLengthMismatch ==
    \A t \in Tasks :
      SimilarityDone(task[t]) =>
        (task[t].ret.ok <=> Len(task[t].vectors[1]) = Len(task[t].vectors[2]))

\* dot_product was refused a pair of lengths 2 and 3.
C22_Witness ==
    \E t \in Tasks :
      /\ task[t].pc = "done" /\ task[t].op = "dot_product"
      /\ Len(task[t].vectors[1]) = 2 /\ Len(task[t].vectors[2]) = 3
      /\ task[t].ret = Err

\* Every component of a is 0.0.
IsZeroVector(a) == \A i \in 1..Len(a) : IsZeroF(a[i])

\* C23: cosine_similarity returns exactly 0.0 whenever either input is a zero
\* vector, and 1.0 for cosine_similarity(a, a) when a is not a zero vector.
C23_ZeroOrOne ==
    \A t \in Tasks :
      (/\ task[t].pc = "done" /\ task[t].op = "cosine_similarity"
       /\ Len(task[t].vectors[1]) = Len(task[t].vectors[2]))
      => LET a == task[t].vectors[1]
             b == task[t].vectors[2]
         IN /\ (IsZeroVector(a) \/ IsZeroVector(b)) => task[t].ret = Ok(Fin(0))
            /\ (a = b /\ ~IsZeroVector(a)) => task[t].ret = Ok(Fin(ScoreUnit))

\* The part of C23 that holds: a zero vector on either side gives exactly
\* 0.0, never an error.
C23_ZeroVectorGivesZero ==
    \A t \in Tasks :
      (/\ task[t].pc = "done" /\ task[t].op = "cosine_similarity"
       /\ Len(task[t].vectors[1]) = Len(task[t].vectors[2])
       /\ IsZeroVector(task[t].vectors[1]) \/ IsZeroVector(task[t].vectors[2]))
      => task[t].ret = Ok(Fin(0))

\* C31: every iteration of the traversal takes the remaining candidate with
\* the highest similarity to the query, and the traversal breaks off only at
\* a candidate that is no closer to the query than the frontier's worst
\* member.
C31_ExpandsClosestStopsWhenNoCloser ==
    [][\A t \in Tasks :
         (task'[t] # task[t] /\ task'[t].op = "search_layer")
         => LET steps == Unwrap(task'[t].ret.val).steps
            IN \A i \in 1..Len(steps) :
                 /\ \A d \in steps[i].candidates :
                      d.distance <= steps[i].c.distance
                 /\ steps[i].stop =>
                      \A f \in HeapTops(steps[i].w) :
                        steps[i].c.distance <= f.distance]_vars

\* What the traversal does: every iteration takes a remaining candidate with
\* the lowest similarity, and it breaks off exactly at a candidate that is
\* closer to the query than the frontier's worst member.
C31_ExpandsFarthestStopsWhenCloser ==
    [][\A t \in Tasks :
         (task'[t] # task[t] /\ task'[t].op = "search_layer")
         => LET steps == Unwrap(task'[t].ret.val).steps
            IN \A i \in 1..Len(steps) :
                 /\ \A d \in steps[i].candidates :
                      d.distance >= steps[i].c.distance
                 /\ steps[i].stop <=>
                      \E f \in HeapTops(steps[i].w) :
                        steps[i].c.distance > f.distance]_vars

\* r holds min(k, size) entries of the flat index f, and no entry of f left
\* out of r scores strictly higher against the query than one in r.
IsExactTopK(f, query, k, r) ==
    /\ Len(r) = Min2(k, FlatSize(f))
    /\ Range(IdsOf(r)) \subseteq DOMAIN f.vectors
    /\ \A x \in DOMAIN f.vectors \ Range(IdsOf(r)) :
         \A i \in 1..Len(r) :
           LET sx == FlatCosineSimilarity(query, f.vectors[x])
           IN ~(IsFinite(sx) /\ IsFinite(r[i].score) /\ sx.val > r[i].score.val)

\* C32: for every stored set and every k, Flat Index search returns exactly
\* min(k, size()) results and no stored id outside the result scores
\* strictly higher than one inside.
C32_FlatSearchExact ==
    [][\A t \in Tasks :
         (task'[t] # task[t] /\ task'[t].op = "flat_search")
         => IsExactTopK(flat, task'[t].query, task'[t].k,
                        Unwrap(task'[t].ret.val))]_vars

\* The part of C32 that holds for every stored set: the number of results.
C32_FlatSearchCount ==
    [][\A t \in Tasks :
         (task'[t] # task[t] /\ task'[t].op = "flat_search")
         => Len(Unwrap(task'[t].ret.val)) = Min2(task'[t].k, FlatSize(flat))]_vars

\* C32 over finite embeddings: the flat index fed in lockstep with the graph
\* index answers exactly.
C32_FlatSearchExactOnFinite ==
    [][\A t \in Tasks :
         (task'[t] # task[t] /\ task'[t].op = "index_search")
         => IsExactTopK(flat, task'[t].query, task'[t].k,
                        Unwrap(task'[t].ret.val).flat)]_vars

\* How often id occurs in the list s.
Occurrences(s, id) == Cardinality({i \in 1..Len(s) : s[i] = id})

\* Some neighbor list holds id more than once, or the node id lists itself.
DuplicateOrSelfListed(idx, id) ==
    \/ \E y \in NodeIds(idx) : Occurrences(idx.nodes[y].connections, id) > 1
    \/ id \in NodeIds(idx) /\ id \in Range(idx.nodes[id].connections)

\* The step is an add_vector of an id that is in the graph already.
IsReAdd(t) ==
    /\ task'[t] # task[t] /\ task'[t].op = "add"
    /\ task'[t].id \in NodeIds(index)

IsStoreStep(t) ==
    /\ task'[t].op = "store" /\ task'[t].pc = "done"
    /\ task'[t] # task[t] \/ storage' # storage

\* store_vector changes the count by one for a new id and not at all for an
\* id already in the store.
CountFollowsUpsert(t) ==
    CountVectors(storage') =
      IF task'[t].id \in DOMAIN storage
      THEN CountVectors(storage) ELSE CountVectors(storage) + 1

\* C34: store_vector is an upsert keyed by id: afterwards get_vector of the
\* id returns the record just stored, count_vectors is unchanged when the id
\* was in the store and one higher when it was not.
C34_UpsertReplacesAndCounts ==
    [][\A t \in Tasks :
         IsStoreStep(t) =>
           /\ GetVector(storage', task'[t].id) = Ok(Some(written'[task'[t].id]))
           /\ CountFollowsUpsert(t)]_vars

\* The part of C34 that holds for every record: the key set gains exactly
\* the id, the other rows stay, the count follows, and a record with finite
\* data is read back as stored.
C34_UpsertOnFiniteData ==
    [][\A t \in Tasks :
         IsStoreStep(t) =>
           LET v == written'[task'[t].id]
           IN /\ DOMAIN storage' = DOMAIN storage \cup {v.id}
              /\ \A id \in DOMAIN storage \ {v.id} : storage'[id] = storage[id]
              /\ CountFollowsUpsert(t)
              /\ AllFinite(v.data) => GetVector(storage', v.id) = Ok(Some(v))]_vars

\* The candidate the search of t looks at next.
CurrentCandidate(t) == task[t].candidates[task[t].pos]

\* C35: when the record of the candidate a search is looking at is no longer
\* in the store, the search keeps its results as they are, the id is not in
\* them, and it goes on or returns them without an error; the candidates
\* carry no id twice and the results hold only ids of candidates already
\* looked at, so the skipped id does not come back later.
C35_SearchSkipsVanishedRecord ==
    /\ [](\A t \in Tasks :
            task[t].pc = "srch_fetch" =>
              /\ \A i, j \in 1..Len(task[t].candidates) :
                   i < j => task[t].candidates[i].id # task[t].candidates[j].id
              /\ Range(IdsOf(task[t].results)) \subseteq
                   {task[t].candidates[i].id : i \in 1..(task[t].pos - 1)})
    /\ [][\A t \in Tasks :
            (/\ task[t].pc = "srch_fetch" /\ task'[t] # task[t]
             /\ CurrentCandidate(t).id \notin DOMAIN storage)
            => /\ task'[t].pc = "done" => task'[t].ret = Ok(task[t].results)
               /\ task'[t].pc # "done" =>
                    /\ task'[t].pc = "srch_fetch"
                    /\ task'[t].results = task[t].results
                    /\ task'[t].pos = task[t].pos + 1
               /\ CurrentCandidate(t).id \notin Range(IdsOf(task[t].results))]_vars

\* A search holding the read lock has gone past a candidate that passed the
\* threshold and did not keep it, while the delete_vector that took its
\* record out of the store is waiting for the write lock.
C35_Witness ==
    \E t, u \in Tasks :
      /\ task[t].pc = "srch_fetch" /\ t \in lock.readers
      /\ task[u].pc = "del_lock"
      /\ \E i \in 1..(task[t].pos - 1) :
           /\ task[t].candidates[i].id = task[u].id
           /\ PassesThreshold(task[t].candidates[i].score, task[t].threshold)
           /\ task[u].id \notin Range(IdsOf(task[t].results))
           /\ task[u].id \notin DOMAIN storage
           /\ task[u].id \in NodeIds(index)

\* C36: dropping insert_vectors changes neither the store nor the index, so
\* the records of the batch already committed stay; the transaction that was
\* dispatched when the call was dropped still commits its record, without
\* the index lock and without an index add, and it does so eventually.
C36_AbandonedInsertStillCommits ==
    /\ [][\A t \in Tasks :
            /\ (/\ task[t].pc \in {"ins_lock", "ins_store"}
                /\ \/ task'[t].pc = "ins_detached"
                   \/ task'[t].pc = "done" /\ task'[t].ret = Abandoned)
               => /\ storage' = storage /\ index' = index
                  /\ \A id \in Range(task[t].ids) : id \in DOMAIN storage'
                  /\ lock'.writer # Some(t)
            /\ (task[t].pc = "ins_detached" /\ task'[t] # task[t])
               => /\ task'[t].pc = "done" /\ task'[t].ret = Abandoned
                  /\ storage' = MapInsert(storage, CurrentRecord(t).id,
                                          Serialize(CurrentRecord(t)))
                  /\ index' = index
                  /\ \A id \in Range(task[t].ids) : id \in DOMAIN storage']_vars
    /\ \A t \in Tasks :
         (task[t].pc = "ins_detached") ~> (task[t].pc = "done" /\ task[t].id \in DOMAIN storage)

\* An insert_vectors dropped during its second record's store write: the
\* first record is in the store and the index, the second in the store only.
C36_Witness ==
    \E t \in Tasks :
      /\ task[t].pc = "done" /\ task[t].op = "insert" /\ task[t].ret = Abandoned
      /\ Len(task[t].ids) = 1
      /\ task[t].id # task[t].ids[1]
      /\ DOMAIN storage = {task[t].ids[1], task[t].id}
      /\ NodeIds(index) = {task[t].ids[1]}

\* The operations C37 calls non-mutating.
NonMutatingOps == {"get", "search", "stats", "compact", "backup"}

\* Task t takes a step of one of the operations in ops.
StepOf(t, ops) ==
    /\ task'[t].op \in ops
    /\ task'[t] # task[t] \/ storage' # storage \/ index' # index

\* Some id leaves the store or the index in this step.
SomeRecordLeaves ==
    \/ DOMAIN storage \ DOMAIN storage' # {}
    \/ NodeIds(index) \ NodeIds(index') # {}

\* C37: get_vector, search, search_in_collection, get_stats, compact and
\* backup leave the store's records and the index as they are; an id leaves
\* the store or the index only in a step of delete_vector, and delete_vector
\* of an id absent from the store leaves the index as it is.
C37_NonMutatingFrame ==
    [][/\ \A t \in Tasks : StepOf(t, NonMutatingOps) =>
                              storage' = storage /\ index' = index
       /\ SomeRecordLeaves => \E t \in Tasks : StepOf(t, {"delete"})
       /\ \A t \in Tasks :
            (StepOf(t, {"delete"}) /\ task[t].pc # "del_lock"
             /\ task'[t].id \notin DOMAIN storage)
            => index' = index /\ storage' = storage]_vars

\* What holds of C37: the same frame, for backup only when the backup
\* directory is not the data directory.
C37_FrameUnlessBackupOntoItself ==
    [][/\ \A t \in Tasks :
            (StepOf(t, NonMutatingOps)
             /\ ~(task'[t].op = "backup" /\ task'[t].id = DataDir))
            => storage' = storage /\ index' = index
       /\ SomeRecordLeaves =>
            \E t \in Tasks : \/ StepOf(t, {"delete"})
                              \/ (StepOf(t, {"backup"}) /\ task'[t].id = DataDir)
       /\ \A t \in Tasks :
            (StepOf(t, {"delete"}) /\ task[t].pc # "del_lock"
             /\ task'[t].id \notin DOMAIN storage)
            => index' = index /\ storage' = storage]_vars

\* The call of t has started and not returned.
InFlight(t) == task[t].pc \notin {"idle", "done"}
\* The call of t waits for the index lock.
WaitsForLock(t) == task[t].pc \in {"ins_lock", "del_lock", "srch_lock"}

\* C38: every call of insert_vectors, delete_vector, search and
\* search_in_collection eventually returns; whoever holds the index lock is
\* at a point where it waits for nothing but the store, and when every call
\* in flight waits for the lock the lock is free, so no wait is cyclic.
C38_EveryCallReturns ==
    /\ [](/\ \A t \in Tasks :
               /\ lock.writer = Some(t) => task[t].pc \in {"ins_store", "ins_index"}
               /\ t \in lock.readers => task[t].pc = "srch_fetch"
           /\ (\A u \in Tasks : InFlight(u) => WaitsForLock(u)) => lock = Unlocked)
    /\ \A t \in Tasks : InFlight(t) ~> (task[t].pc = "done")

\* One call holds the write lock while its store transaction is awaited and
\* the other call waits for the lock.
C38_Witness ==
    \E t, u \in Tasks :
      /\ lock.writer = Some(t) /\ task[t].pc = "ins_store"
      /\ task[u].pc \in {"srch_lock", "del_lock", "ins_lock"}
====
